---- MODULE Spec2Model ----
(***************************************************************************)
(* Model of the xroute middleware engine:                                  *)
(*   - ChainHandler (Next / Pass / ServeHTTPContext), the chain runner;    *)
(*   - MiddlewaresStack (Add / Build / Copy), the middleware stack;        *)
(*   - Mux (ServeHTTPContext / routeHTTP / Mount / Use), the router, and   *)
(*     RouteContext, the routing context.                                  *)
(* Spec      : one dispatch through a ChainHandler.                        *)
(* SpecStack : Add / Build calls on a middleware stack.                     *)
(* SpecCopy  : Add / Build calls on a stack and its Copy.                  *)
(* SpecBuild : concurrent first requests building the handler of a Mux.    *)
(* SpecMux   : one request dispatched through mounted routers.             *)
(* SpecMount : Get / Mount registrations on the tree of a Mux.             *)
(***************************************************************************)
EXTENDS Integers, Sequences, FiniteSets, TLC

VARIABLES
    \* ---- ChainHandler (the runner made by ServeHTTPContext) ----
    Middlewares,   \* the handlers of the chain: per slot, what the handler does
    Endpoint,      \* what the endpoint does: "ok" or "panic"
    values,        \* the overrides the handlers pass to Next(values...)
    Index,         \* ChainHandler.Index
    next,          \* ChainHandler.next
    Writer,        \* ChainHandler.Writer
    request,       \* ChainHandler.request
    Context,       \* ChainHandler.Context
    ctxHandler,    \* RouteContext.Handler of each routing context
    frames,        \* call stack: activations of Next and of middleware handlers
    status,        \* "idle", "running", "panicking", "done", "panicked"
    trace,         \* observed handler invocations and returns
    \* ---- MiddlewaresStack ----
    heap,          \* the ByName maps, by the reference the stacks hold
    stacks,        \* the MiddlewaresStack objects
    outcome,       \* result of the last stack operation
    budget,        \* number of middlewares handed to Add so far
    \* ---- Mux: the lazily built handler ----
    muxHandler,        \* Mux.handler, an interface value: its two words
    buildRouterMutex,  \* Mux.buildRouterMutex: the goroutine holding it, or 0
    goroutines,        \* the requests being served: position and locals of each
    constructed,       \* number of handlers buildRouteHandler has made
    muxMiddlewares,    \* Mux.middlewares: the stack and its ByName map
    useOutcome,        \* what the last Use() did
    \* ---- Mux: one dispatch ----
    routers,       \* the routers: tree and settings of each
    httpReq,       \* the request: method, path, routing context it carries
    routeCtx,      \* the RouteContext of the request
    muxFrames,     \* call stack: activations of Mux.ServeHTTPContext
    muxStatus,     \* "idle", "running", "panicking", "done", "panicked", "reset"
    events,        \* observed searches, handler calls and returns
    pool,          \* Mux.pool of the top router: contexts in it, Get and Put calls
    \* ---- Mux: registration ----
    tree,          \* Mux.tree: the registered routes
    regOutcome     \* what the last registration did

chainVars == <<Middlewares, Endpoint, values, Index, next, Writer, request,
               Context, ctxHandler, frames, status, trace>>
stackVars == <<heap, stacks, outcome, budget>>
vars == <<Middlewares, Endpoint, values, Index, next, Writer, request,
          Context, ctxHandler, frames, status, trace,
          heap, stacks, outcome, budget,
          muxHandler, buildRouterMutex, goroutines, constructed, muxMiddlewares,
          useOutcome,
          routers, httpReq, routeCtx, muxFrames, muxStatus, events, pool,
          tree, regOutcome>>
buildVars == <<muxHandler, buildRouterMutex, goroutines, constructed,
               muxMiddlewares, useOutcome>>
dispatchVars == <<routers, httpReq, routeCtx, muxFrames, muxStatus, events, pool>>
regVars == <<tree, regOutcome>>
muxVars == <<buildVars, dispatchVars, regVars>>

----------------------------------------------------------------------------
\* Bounds

\* number of middlewares in the chain
NMw == 2
\* number of Next()/Pass() calls one handler makes
MaxOps == 2
\* number of middlewares handed to Add, over all the calls
MaxItems == 3

----------------------------------------------------------------------------
\* Sequence helpers

Last(s) == s[Len(s)]
Front(s) == SubSeq(s, 1, Len(s) - 1)

RECURSIVE SeqsUpTo(_, _)
SeqsUpTo(S, k) ==
    IF k = 0 THEN {<<>>}
    ELSE LET shorter == SeqsUpTo(S, k - 1)
         IN  shorter \cup {Append(s, x) : s \in {t \in shorter : Len(t) = k - 1}, x \in S}

----------------------------------------------------------------------------
\* ChainHandler

\* What a middleware handler can do with the chain it is given.
ChainOps == {"Next", "Pass"}

\* A handler body: calls on the chain, then a return or a panic.
HandlerBodies ==
    {[ops |-> o, panics |-> p] : o \in SeqsUpTo(ChainOps, MaxOps), p \in BOOLEAN}

\* Requests carry their attached logical context (http.Request.WithContext).
Req(id, cx) == [id |-> id, ctx |-> cx]
WithContext(r, cx) == [r EXCEPT !.ctx = cx]

\* ResponseWriter(w): a writer with status is kept, another one is wrapped.
ResponseWriter(w) == IF w[1] = "ws" THEN w ELSE <<"ws", w[2]>>

\* The values the handlers pass to Next, tagged by their Go type.
ValueLists ==
    { <<>>,
      << [t |-> "ResponseWriterWithStatus", v |-> <<"ws", "w1">>],
         [t |-> "context.Context", v |-> "cx2"] >>,
      << [t |-> "http.ResponseWriter", v |-> <<"raw", "w2">>],
         [t |-> "*http.Request", v |-> Req("r1", "bg")],
         [t |-> "*RouteContext", v |-> "rc1"] >>,
      << [t |-> "*http.Request", v |-> Req("r2", "bg")],
         [t |-> "context.Context", v |-> "cx1"] >> }

RouteContexts == {"rc0", "rc1"}

\* ChainHandler.SetRequest, in a runner state st = [Writer, request, Context]
SetRequest(st, r) == [st EXCEPT !.request = r]

\* The type switch of Next over one value.
ApplyValue(st, v) ==
    CASE v.t = "*http.Request" -> SetRequest(st, v.v)
      [] v.t = "ResponseWriterWithStatus" -> [st EXCEPT !.Writer = v.v]
      [] v.t = "http.ResponseWriter" -> [st EXCEPT !.Writer = ResponseWriter(v.v)]
      [] v.t = "*RouteContext" -> [st EXCEPT !.Context = v.v]
      [] v.t = "context.Context" -> SetRequest(st, WithContext(st.request, v.v))
      [] OTHER -> st

\* for _, v := range values { switch ... }
RECURSIVE ApplyValues(_, _)
ApplyValues(st, vs) ==
    IF vs = <<>> THEN st
    ELSE ApplyValues(ApplyValue(st, Head(vs)), Tail(vs))

\* Faulty variant: the index is left where it was
AdvanceStay(i) == i

\* Faulty variant: the index advanced past a slot
AdvanceSkip(i) == i + 2

\* c.Index++
Advance(i) == i + 1

\* The loop test after a handler returned: run another iteration?
LoopAgain(flag) == flag

\* Faulty variant: the snapshot is not put back
NoRestore(f, cur) == cur

\* The deferred function of Next: the snapshot taken on entry is put back.
DeferredRestore(f, cur) == [Writer |-> f.w, request |-> f.r, Context |-> f.arg]

Runner == [Writer |-> Writer, request |-> request, Context |-> Context]

NoWriter == <<"ws", "none">>
NoRequest == Req("none", "none")

\* An activation of Next: snapshot, oldNext, position in the loop.
NextFrame(snap, vs, old) ==
    [kind |-> "Next", w |-> snap.Writer, r |-> snap.request, arg |-> snap.Context,
     vals |-> vs, oldNext |-> old, pc |-> "loop",
     slot |-> 0, ops |-> <<>>, panics |-> FALSE, passed |-> FALSE, nexted |-> FALSE]

\* An activation of the handler of Middlewares[slot].
HandlerFrame(slot) ==
    [kind |-> "Handler", w |-> NoWriter, r |-> NoRequest, arg |-> "none",
     vals |-> <<>>, oldNext |-> FALSE, pc |-> "body",
     slot |-> slot, ops |-> Middlewares[slot + 1].ops,
     panics |-> Middlewares[slot + 1].panics, passed |-> FALSE, nexted |-> FALSE]

Event(ev, slot, st, vs, passed, nexted) ==
    [ev |-> ev, slot |-> slot, W |-> st.Writer, R |-> st.request, C |-> st.Context,
     vals |-> vs, passed |-> passed, nexted |-> nexted]

Top == Last(frames)
SetTop(f) == [frames EXCEPT ![Len(frames)] = f]

\* if rctx == nil { rctx = NewRouteContext() }
ContextOrNew(rctx) == IF rctx = "nil" THEN "new" ELSE rctx

\* ChainHandler.ServeHTTPContext(w, r, rctx): a runner of its own, then Next().
ServeHTTPContext ==
    /\ status = "idle"
    /\ LET c   == ContextOrNew("rc0")
           run == [Writer |-> ResponseWriter(<<"raw", "w0">>),
                   request |-> Req("r0", "bg"), Context |-> c]
           st  == ApplyValues(run, <<>>)
       IN  /\ ctxHandler' = [ctxHandler EXCEPT ![c] = "Endpoint"]
           /\ Index' = 0
           /\ next' = FALSE
           /\ Writer' = st.Writer
           /\ request' = st.request
           /\ Context' = st.Context
           /\ frames' = <<NextFrame(run, <<>>, FALSE)>>
    /\ status' = "running"
    /\ UNCHANGED <<Middlewares, Endpoint, values, trace>>
    /\ UNCHANGED <<stackVars, muxVars>>

\* Next, loop body, first branch: the handler of Middlewares[Index] is called.
InvokeMiddleware ==
    /\ status = "running"
    /\ Top.kind = "Next" /\ Top.pc = "loop"
    /\ Index < Len(Middlewares)
    /\ Index' = Advance(Index)
    /\ frames' = Append(SetTop([Top EXCEPT !.pc = "check"]), HandlerFrame(Index))
    /\ trace' = Append(trace, Event("call", Index, Runner, Top.vals, FALSE, FALSE))
    /\ UNCHANGED <<Middlewares, Endpoint, values, next, Writer, request, Context,
                   ctxHandler, status>>
    /\ UNCHANGED <<stackVars, muxVars>>

\* Next, loop body, second branch: the endpoint is called; it returns or panics.
InvokeEndpoint ==
    /\ status = "running"
    /\ Top.kind = "Next" /\ Top.pc = "loop"
    /\ ~(Index < Len(Middlewares))
    /\ Index = Len(Middlewares)
    /\ Index' = Advance(Index)
    /\ IF Endpoint = "panic"
       THEN /\ status' = "panicking"
            /\ frames' = frames
            /\ trace' = Append(trace, Event("call", Index, Runner, Top.vals, FALSE, FALSE))
       ELSE /\ status' = status
            /\ frames' = SetTop([Top EXCEPT !.pc = "check"])
            /\ trace' = trace \o <<Event("call", Index, Runner, Top.vals, FALSE, FALSE),
                                   Event("ret", Index, Runner, <<>>, FALSE, FALSE)>>
    /\ UNCHANGED <<Middlewares, Endpoint, values, next, Writer, request, Context,
                   ctxHandler>>
    /\ UNCHANGED <<stackVars, muxVars>>

\* Next, loop body, no branch taken: the chain is exhausted, nothing is called.
LoopExhausted ==
    /\ status = "running"
    /\ Top.kind = "Next" /\ Top.pc = "loop"
    /\ Index > Len(Middlewares)
    /\ frames' = SetTop([Top EXCEPT !.pc = "check"])
    /\ UNCHANGED <<Middlewares, Endpoint, values, Index, next, Writer, request,
                   Context, ctxHandler, status, trace>>
    /\ UNCHANGED <<stackVars, muxVars>>

\* Next, end of an iteration: c.next set means loop again, else leave Next.
CheckNext ==
    /\ status = "running"
    /\ Top.kind = "Next" /\ Top.pc = "check"
    /\ IF LoopAgain(next)
       THEN /\ next' = FALSE
            /\ frames' = SetTop([Top EXCEPT !.pc = "loop"])
            /\ UNCHANGED <<Writer, request, Context, status>>
       ELSE LET st == DeferredRestore(Top, Runner)
            IN  /\ next' = Top.oldNext
                /\ Writer' = st.Writer
                /\ request' = st.request
                /\ Context' = st.Context
                /\ frames' = Front(frames)
                /\ status' = IF Len(frames) = 1 THEN "done" ELSE status
    /\ UNCHANGED <<Middlewares, Endpoint, values, Index, ctxHandler, trace>>
    /\ UNCHANGED <<stackVars, muxVars>>

\* A handler calls chain.Next(values...): snapshot, overrides, oldNext.
HandlerNext ==
    /\ status = "running"
    /\ Top.kind = "Handler" /\ Top.ops # <<>>
    /\ Head(Top.ops) = "Next"
    /\ LET vs == values
           st == ApplyValues(Runner, vs)
       IN  /\ Writer' = st.Writer
           /\ request' = st.request
           /\ Context' = st.Context
           /\ frames' = Append(SetTop([Top EXCEPT !.ops = Tail(@), !.nexted = TRUE]),
                               NextFrame(Runner, vs, next))
    /\ UNCHANGED <<Middlewares, Endpoint, values, Index, next, ctxHandler, status, trace>>
    /\ UNCHANGED <<stackVars, muxVars>>

\* A handler calls chain.Pass().
Pass ==
    /\ status = "running"
    /\ Top.kind = "Handler" /\ Top.ops # <<>>
    /\ Head(Top.ops) = "Pass"
    /\ next' = TRUE
    /\ frames' = SetTop([Top EXCEPT !.ops = Tail(@), !.passed = TRUE])
    /\ UNCHANGED <<Middlewares, Endpoint, values, Index, Writer, request, Context,
                   ctxHandler, status, trace>>
    /\ UNCHANGED <<stackVars, muxVars>>

\* A handler returns to the loop of the Next that called it.
HandlerReturn ==
    /\ status = "running"
    /\ Top.kind = "Handler" /\ Top.ops = <<>> /\ ~Top.panics
    /\ frames' = Front(frames)
    /\ trace' = Append(trace, Event("ret", Top.slot, Runner, <<>>, Top.passed, Top.nexted))
    /\ UNCHANGED <<Middlewares, Endpoint, values, Index, next, Writer, request,
                   Context, ctxHandler, status>>
    /\ UNCHANGED <<stackVars, muxVars>>

\* A handler panics after its calls on the chain.
HandlerPanic ==
    /\ status = "running"
    /\ Top.kind = "Handler" /\ Top.ops = <<>> /\ Top.panics
    /\ status' = "panicking"
    /\ UNCHANGED <<Middlewares, Endpoint, values, Index, next, Writer, request,
                   Context, ctxHandler, frames, trace>>
    /\ UNCHANGED <<stackVars, muxVars>>

\* A panic leaves one activation; leaving Next runs its deferred function only.
Unwind ==
    /\ status = "panicking"
    /\ frames # <<>>
    /\ LET st == IF Top.kind = "Next" THEN DeferredRestore(Top, Runner) ELSE Runner
       IN  /\ Writer' = st.Writer
           /\ request' = st.request
           /\ Context' = st.Context
    /\ frames' = Front(frames)
    /\ status' = IF Len(frames) = 1 THEN "panicked" ELSE status
    /\ UNCHANGED <<Middlewares, Endpoint, values, Index, next, ctxHandler, trace>>
    /\ UNCHANGED <<stackVars, muxVars>>

InitStackIdle ==
    /\ heap = <<>>
    /\ stacks = <<>>
    /\ outcome = "none"
    /\ budget = 0

\* No Mux is serving or registering.
InitBuildIdle ==
    /\ muxHandler = [tab |-> FALSE, data |-> 0]
    /\ buildRouterMutex = 0
    /\ goroutines = <<>>
    /\ constructed = 0
    /\ muxMiddlewares = <<>>
    /\ useOutcome = "none"

InitDispatchIdle ==
    /\ routers = <<>>
    /\ httpReq = <<>>
    /\ routeCtx = <<>>
    /\ muxFrames = <<>>
    /\ muxStatus = "idle"
    /\ events = <<>>
    /\ pool = <<>>

InitRegIdle ==
    /\ tree = {}
    /\ regOutcome = "none"

InitMuxIdle == InitBuildIdle /\ InitDispatchIdle /\ InitRegIdle

\* A panic ends the dispatch, so at most one handler of a chain ever panics:
\* the chains with one panicking handler (or endpoint) cover every behaviour.
Panickers(mws, ep) ==
    {i \in 1..Len(mws) : mws[i].panics} \cup (IF ep = "panic" THEN {0} ELSE {})

InitChain ==
    /\ Middlewares \in [1..NMw -> HandlerBodies]
    /\ Endpoint \in {"ok", "panic"}
    /\ Cardinality(Panickers(Middlewares, Endpoint)) <= 1
    /\ values \in ValueLists
    /\ Index = 0
    /\ next = FALSE
    /\ Writer = NoWriter
    /\ request = NoRequest
    /\ Context = "none"
    /\ ctxHandler = [c \in RouteContexts \cup {"new"} |-> "none"]
    /\ frames = <<>>
    /\ status = "idle"
    /\ trace = <<>>

Init == InitChain /\ InitStackIdle /\ InitMuxIdle

Next ==
    \/ ServeHTTPContext
    \/ InvokeMiddleware
    \/ InvokeEndpoint
    \/ LoopExhausted
    \/ CheckNext
    \/ HandlerNext
    \/ Pass
    \/ HandlerReturn
    \/ HandlerPanic
    \/ Unwind

Spec == Init /\ [][Next]_vars

----------------------------------------------------------------------------
\* MiddlewaresStack

DUPLICATION_OVERRIDE == 0
DUPLICATION_ABORT == 1
DUPLICATION_SKIP == 2

\* The option values handed to Add: the three policies and an invalid one.
Options == {DUPLICATION_OVERRIDE, DUPLICATION_ABORT, DUPLICATION_SKIP, 3}

Names == {"auth", "log"}
\* The names Before / After may mention: the names above and one never registered.
Refs == Names \cup {"missing"}

Range(s) == {s[i] : i \in 1..Len(s)}

\* Middleware{Name, Handler, Before, After}
Middleware(name, handler, before, after) ==
    [Name |-> name, Handler |-> handler, Before |-> before, After |-> after]

\* Before / After of the middlewares handed to Add: at most one reference.
Constraints ==
    {<<(<<>>), (<<>>)>>}
        \cup {<<(<<x>>), (<<>>)>> : x \in Refs}
        \cup {<<(<<>>), (<<x>>)>> : x \in Refs}

\* The named middlewares handed to Add.
Named == {Middleware(n, "h", c[1], c[2]) : n \in Names, c \in Constraints}

\* The anonymous middlewares (Name = "") handed to Add.
Unnamed ==
    { Middleware("", "metrics", <<>>, <<>>),
      Middleware("", "trace", <<"log">>, <<>>),
      Middleware("", "gz", <<>>, <<"missing">>) }

Catalogue == Named \cup Unnamed

\* The lists of middlewares handed to one call of Add: one or two of them.
Batches == {<<a>> : a \in Catalogue} \cup {<<a, b>> : a, b \in Catalogue}

\* The middlewares handed to Add where a stack and its copy are followed.
CopyCatalogue ==
    { Middleware("auth", "h", <<>>, <<>>),
      Middleware("auth", "h", <<"log">>, <<>>),
      Middleware("log", "h", <<>>, <<>>),
      Middleware("log", "h", <<"auth">>, <<>>),
      Middleware("", "metrics", <<>>, <<>>) }

CopyBatches == {<<a>> : a \in CopyCatalogue} \cup {<<a, b>> : a, b \in CopyCatalogue}

\* The absent entry of a ByName map.
Nil == Middleware("", "nil", <<>>, <<>>)

\* make(map[string]*Middleware)
EmptyMap == [n \in Names |-> Nil]

\* NewMiddlewaresStack(name, acceptAnonymous); byName is the map allocated for it.
NewMiddlewaresStack(name, acceptAnonymous, byName) ==
    [Name |-> name, ByName |-> byName, Items |-> <<>>, ItemsIsNil |-> TRUE,
     Anonymous |-> <<>>, acceptAnonymous |-> acceptAnonymous, Len |-> 0]

\* stack.Has(name), on the map m of the stack
Has(m, name) == name \in Names /\ m[name] # Nil

Registered(m) == {n \in Names : m[n] # Nil}

\* Faulty variant: SKIP treated as OVERRIDE: the existing middleware is replaced
OnDuplicateNoSkip(option) ==
    CASE option = DUPLICATION_ABORT -> "panic"
      [] option = DUPLICATION_SKIP -> "store"
      [] option = DUPLICATION_OVERRIDE -> "store"
      [] OTHER -> "panic"

\* The switch of Add on a name that is already registered.
OnDuplicate(option) ==
    CASE option = DUPLICATION_ABORT -> "panic"
      [] option = DUPLICATION_SKIP -> "continue"
      [] option = DUPLICATION_OVERRIDE -> "store"
      [] OTHER -> "panic"

\* The loop of Add over items[i..], on the stack st and its ByName map m.
RECURSIVE AddItems(_, _, _, _, _)
AddItems(st, m, items, i, option) ==
    IF i > Len(items) THEN [st |-> st, m |-> m, result |-> "ok"]
    ELSE LET md == items[i]
         IN  IF md.Name = ""
             THEN IF st.acceptAnonymous
                  THEN AddItems([st EXCEPT !.Anonymous = Append(@, md), !.Len = @ + 1],
                                m, items, i + 1, option)
                  ELSE [st |-> st, m |-> m, result |-> "panic"]
             ELSE LET todo == IF Has(m, md.Name) THEN OnDuplicate(option) ELSE "store"
                  IN  CASE todo = "panic" -> [st |-> st, m |-> m, result |-> "panic"]
                        [] todo = "continue" -> AddItems(st, m, items, i + 1, option)
                        [] OTHER ->
                             AddItems([st EXCEPT !.Len = @ + 1],
                                      [m EXCEPT ![md.Name] = md], items, i + 1, option)

RECURSIVE Perms(_)
Perms(S) ==
    IF S = {} THEN {<<>>}
    ELSE UNION {{<<x>> \o p : p \in Perms(S \ {x})} : x \in S}

Pos(s, x) == CHOOSE i \in 1..Len(s) : s[i] = x

\* graph.DepthFirst(): the orders it can return for the graph; none when the
\* graph has a cycle (err != nil).  The nodes and edges are added by ranging
\* over a map, so the order among unconstrained nodes is not fixed.
DepthFirst(nodes, edges) ==
    {p \in Perms(nodes) : \A e \in edges : Pos(p, e[1]) < Pos(p, e[2])}

\* Faulty variant: After adds the edge in the direction of Before
AfterEdgesReversed(m) ==
    UNION {{<<m[n].Name, from>> : from \in {f \in Range(m[n].After) : Has(m, f)}} :
             n \in Registered(m)}

\* graph.AddEdge(md.Name, to) for every registered name in md.Before
BeforeEdges(m) ==
    UNION {{<<m[n].Name, to>> : to \in {t \in Range(m[n].Before) : Has(m, t)}} :
             n \in Registered(m)}

\* graph.AddEdge(from, md.Name) for every registered name in md.After
AfterEdges(m) ==
    UNION {{<<from, m[n].Name>> : from \in {f \in Range(m[n].After) : Has(m, f)}} :
             n \in Registered(m)}

\* Faulty variant: names that are not registered are not reported
NotFoundIgnored(m) == {}

\* notFound: the registered middlewares that mention a name not registered
NotFound(m) ==
    {n \in Registered(m) :
        \E ref \in Range(m[n].Before) \cup Range(m[n].After) : ~Has(m, ref)}

\* Faulty variant: the anonymous middlewares are put first
MaterializeAnonymousFirst(names, m, anonymous) ==
    anonymous \o [i \in 1..Len(names) |-> m[names[i]]]

\* stack.Items: the named middlewares in the order names, then the anonymous ones
Materialize(names, m, anonymous) ==
    [i \in 1..Len(names) |-> m[names[i]]] \o anonymous

\* if len(stack.Items) == stack.Len { return stack }
AlreadyBuilt(st) == Len(st.Items) = st.Len

\* Build() on the stack st with ByName map m: the outcomes it can have.
BuildOutcomes(st, m) ==
    IF AlreadyBuilt(st) THEN {[st |-> st, result |-> "kept"]}
    ELSE IF NotFound(m) # {} THEN {[st |-> st, result |-> "panic"]}
    ELSE LET orders == DepthFirst(Registered(m), BeforeEdges(m) \cup AfterEdges(m))
         IN  IF orders = {} THEN {[st |-> st, result |-> "panic"]}
             ELSE {[st |-> [st EXCEPT !.Items = Materialize(names, m, st.Anonymous),
                                      !.ItemsIsNil = FALSE],
                    result |-> "ok"] : names \in orders}

\* Faulty variant: the copy keeps the ByName map of the original
ShareByName(h, id) == [heap |-> h, id |-> id]

\* byName := make(map); for key, md := range stack.ByName { byName[key] = md }
CopyByName(h, id) == [heap |-> Append(h, h[id]), id |-> Len(h) + 1]

\* stack.Copy(): the new stack and the heap with its ByName map
CopyStack(st, h) ==
    LET cp == CopyByName(h, st.ByName)
    IN  [heap |-> cp.heap,
         st |-> [Name |-> st.Name, ByName |-> cp.id, Items |-> st.Items,
                 ItemsIsNil |-> FALSE, Anonymous |-> st.Anonymous,
                 acceptAnonymous |-> st.acceptAnonymous, Len |-> st.Len]]

\* What the last call was and how it ended.
Outcome(op, sid, option, result) ==
    [op |-> op, stack |-> sid, option |-> option, result |-> result]

NoOutcome == Outcome("none", 0, 0, "none")

\* stack.Add(items, option) on one of the stacks, items taken from batches
AddFrom(batches) ==
    \E sid \in 1..Len(stacks), option \in Options :
    \E items \in batches :
        /\ budget + Len(items) <= MaxItems
        /\ LET st == stacks[sid]
               r  == AddItems(st, heap[st.ByName], items, 1, option)
           IN  /\ stacks' = [stacks EXCEPT ![sid] = r.st]
               /\ heap' = [heap EXCEPT ![st.ByName] = r.m]
               /\ outcome' = Outcome("Add", sid, option, r.result)
        /\ budget' = budget + Len(items)
        /\ UNCHANGED <<chainVars, muxVars>>

Add == AddFrom(Batches)

AddEither == AddFrom(CopyBatches)

\* stack.Build() on one of the stacks
Build ==
    \E sid \in 1..Len(stacks) :
    \E r \in BuildOutcomes(stacks[sid], heap[stacks[sid].ByName]) :
        /\ stacks' = [stacks EXCEPT ![sid] = r.st]
        /\ outcome' = Outcome("Build", sid, 0, r.result)
        /\ UNCHANGED <<heap, budget>>
        /\ UNCHANGED <<chainVars, muxVars>>

\* c = s.Copy(): the second stack is made from the first
Copy ==
    /\ Len(stacks) = 1
    /\ LET r == CopyStack(stacks[1], heap)
       IN  /\ stacks' = Append(stacks, r.st)
           /\ heap' = r.heap
    /\ outcome' = Outcome("Copy", 1, 0, "ok")
    /\ UNCHANGED budget
    /\ UNCHANGED <<chainVars, muxVars>>

InitChainIdle ==
    /\ Middlewares = [i \in 1..NMw |-> [ops |-> <<>>, panics |-> FALSE]]
    /\ Endpoint = "ok"
    /\ values = <<>>
    /\ Index = 0
    /\ next = FALSE
    /\ Writer = NoWriter
    /\ request = NoRequest
    /\ Context = "none"
    /\ ctxHandler = [c \in RouteContexts \cup {"new"} |-> "none"]
    /\ frames = <<>>
    /\ status = "idle"
    /\ trace = <<>>

\* One stack made by NewMiddlewaresStack, as the Mux makes its three stacks.
InitStack ==
    /\ InitChainIdle
    /\ InitMuxIdle
    /\ heap = <<EmptyMap>>
    /\ \E acceptAnonymous \in BOOLEAN :
         stacks = <<NewMiddlewaresStack("Middleware", acceptAnonymous, 1)>>
    /\ outcome = NoOutcome
    /\ budget = 0

NextStack == Add \/ Build

\* Add and Build calls on one stack.
SpecStack == InitStack /\ [][NextStack]_vars

NextCopy == AddEither \/ Build \/ Copy

\* Add and Build calls on a stack and on the copy made of it.
SpecCopy == InitStack /\ [][NextCopy]_vars

----------------------------------------------------------------------------
\* Properties of one dispatch through the chain

IsCall(e) == e.ev = "call"
Calls == SelectSeq(trace, IsCall)
Shape(e) == <<e.ev, e.slot>>
IsPrefix(s, t) == Len(s) <= Len(t) /\ s = SubSeq(t, 1, Len(s))

\* Every middleware calls Next exactly once and returns; the endpoint returns.
EveryMiddlewareCallsNextOnce ==
    /\ \A i \in 1..Len(Middlewares) :
         /\ Middlewares[i].ops = <<"Next">>
         /\ ~Middlewares[i].panics
    /\ Endpoint = "ok"

\* m[0], ..., m[n-1], endpoint called in that order, then returning in reverse.
StraightLine ==
    LET n == Len(Middlewares)
    IN  [i \in 1..(2 * (n + 1)) |->
            IF i <= n + 1 THEN <<"call", i - 1>> ELSE <<"ret", 2 * (n + 1) - i>>]

\* C1: if every middleware calls Next() once and returns, a dispatch calls
\* m[0], ..., m[n-1] and the endpoint once each in that order, and they return
\* in the reverse order.
C1_StraightLineOrder ==
    EveryMiddlewareCallsNextOnce =>
        /\ IsPrefix([i \in 1..Len(trace) |-> Shape(trace[i])], StraightLine)
        /\ status = "done" => Len(trace) = Len(StraightLine)

C1_Witness ==
    /\ EveryMiddlewareCallsNextOnce
    /\ status = "done"
    /\ Len(trace) = 2 * (NMw + 1)

\* C2: whatever the handlers call (Next, Pass), the handlers invoked in one
\* dispatch are the slots 0, 1, 2, ... of [m[0], ..., m[n-1], endpoint] taken
\* consecutively: none is skipped, none is invoked out of order.
C2_ConsecutiveSlots ==
    /\ Len(Calls) <= Len(Middlewares) + 1
    /\ \A j \in 1..Len(Calls) : Calls[j].slot = j - 1

C2_Witness ==
    /\ status = "done"
    /\ Len(Calls) = Len(Middlewares) + 1
    /\ \E i \in 1..Len(Middlewares) : \E k \in 1..Len(Middlewares[i].ops) :
         Middlewares[i].ops[k] = "Pass"
    /\ \E i \in 1..Len(Middlewares) : \E k \in 1..Len(Middlewares[i].ops) :
         Middlewares[i].ops[k] = "Next"

\* A return of a handler that called Pass().
PassedReturn(e) == e.ev = "ret" /\ e.passed
\* A return of a handler that called Pass() and did not call Next().
PassedOnlyReturn(e) == e.ev = "ret" /\ e.passed /\ ~e.nexted

\* C3: after a middleware called Pass() and returned, the loop of Next runs
\* again without advancing Index: the handler invoked next is the one in the
\* slot of the middleware that called Pass(), not the one in the following
\* slot.
C3_PassReentersSameSlot ==
    \A k \in 1..(Len(trace) - 1) :
        (PassedReturn(trace[k]) /\ trace[k + 1].ev = "call")
            => trace[k + 1].slot = trace[k].slot

\* What Next does after Pass(): the handler invoked after the return of a
\* middleware in slot i that called Pass(), not Next(), is the one in slot
\* i + 1 (c.Index++ comes before h(c)), and slot i is not invoked again.
PassRunsFollowingSlot ==
    \A k \in 1..Len(trace) :
        PassedOnlyReturn(trace[k]) =>
            /\ IF k < Len(trace)
               THEN trace[k + 1].ev = "call" /\ trace[k + 1].slot = trace[k].slot + 1
               ELSE status = "running"
            /\ \A j \in (k + 1)..Len(trace) :
                 ~(trace[j].ev = "call" /\ trace[j].slot = trace[k].slot)

HasT(vs, t) == \E i \in 1..Len(vs) : vs[i].t = t
ValT(vs, t) == vs[CHOOSE i \in 1..Len(vs) : vs[i].t = t].v

\* The overrides among vs are what the invoked handler e is given.
Sees(vs, e) ==
    /\ HasT(vs, "*RouteContext") => e.C = ValT(vs, "*RouteContext")
    /\ HasT(vs, "ResponseWriterWithStatus") => e.W = ValT(vs, "ResponseWriterWithStatus")
    /\ HasT(vs, "http.ResponseWriter") => e.W = <<"ws", ValT(vs, "http.ResponseWriter")[2]>>
    /\ HasT(vs, "*http.Request") => e.R.id = ValT(vs, "*http.Request").id
    /\ HasT(vs, "context.Context") => e.R.ctx = ValT(vs, "context.Context")

\* The values of the innermost running Next that was given values.
RECURSIVE InnermostValues(_)
InnermostValues(fs) ==
    IF fs = <<>> THEN <<>>
    ELSE IF Last(fs).kind = "Next" /\ Last(fs).vals # <<>> THEN Last(fs).vals
    ELSE InnermostValues(Front(fs))

\* C4: Next(values...) installs the supplied writer, request and routing
\* context for the handlers it runs downstream, and when Next is left,
\* normally or by a panic, Writer, request and Context are again what they
\* were when Next was called.
C4_NextInstallsAndRestores ==
    [][ /\ (Len(trace') > Len(trace) /\ IsCall(trace'[Len(trace) + 1]))
            => Sees(InnermostValues(frames), trace'[Len(trace) + 1])
        /\ (frames # <<>> /\ Len(frames') < Len(frames) /\ Top.kind = "Next")
            => /\ Writer' = Top.w
               /\ request' = Top.r
               /\ Context' = Top.arg ]_vars

C4_Witness ==
    /\ status = "panicked"
    /\ \E k \in 1..Len(trace) :
         /\ IsCall(trace[k])
         /\ trace[k].vals # <<>>
         /\ trace[k].C # Context
         /\ trace[k].W # Writer
         /\ trace[k].R # request

----------------------------------------------------------------------------
\* Properties of the middleware stack

\* The last call was a Build() that returned.
Built == outcome.op = "Build" /\ outcome.result \in {"ok", "kept"}
BuiltStack == stacks[outcome.stack]
BuiltMap == heap[BuiltStack.ByName]

IsNamed(md) == md.Name # ""

\* C5: after Build() the Items are every registered named middleware exactly
\* once, followed by every anonymous middleware exactly once, the anonymous
\* ones in their insertion order.
C5_NamedThenAnonymous ==
    Built =>
        LET items == BuiltStack.Items
            k     == Cardinality(Registered(BuiltMap))
        IN  /\ Len(items) = k + Len(BuiltStack.Anonymous)
            /\ {items[i] : i \in 1..k} = {BuiltMap[n] : n \in Registered(BuiltMap)}
            /\ \A i \in 1..k : IsNamed(items[i])
            /\ SubSeq(items, k + 1, Len(items)) = BuiltStack.Anonymous

C5_Witness ==
    /\ Built
    /\ outcome.result = "ok"
    /\ Registered(BuiltMap) # {}
    /\ Len(BuiltStack.Anonymous) = 2
    /\ BuiltStack.Anonymous[1] # BuiltStack.Anonymous[2]
    /\ Len(BuiltStack.Items) = 3

\* x is placed before y in the sequence items
PlacedBefore(items, x, y) ==
    \E i, j \in 1..Len(items) : i < j /\ items[i] = x /\ items[j] = y

\* The middlewares registered in the built stack, named and anonymous.
BuiltRegistered ==
    {BuiltMap[n] : n \in Registered(BuiltMap)} \cup Range(BuiltStack.Anonymous)

\* md is placed as its Before and After ask, as far as they name registered ones.
PlacedAsAsked(md) ==
    /\ \A x \in Range(md.Before) :
         Has(BuiltMap, x) => PlacedBefore(BuiltStack.Items, md, BuiltMap[x])
    /\ \A z \in Range(md.After) :
         Has(BuiltMap, z) => PlacedBefore(BuiltStack.Items, BuiltMap[z], md)

\* C6 (as stated): after Build(), every registered middleware precedes the
\* registered middlewares named in its Before and follows those in its After.
C6_EveryMiddlewareOrdered ==
    Built => \A md \in BuiltRegistered : PlacedAsAsked(md)

\* C6 (amended): after Build(), every registered named middleware precedes
\* the registered middlewares named in its Before and follows those named in
\* its After; the Before and After of an anonymous middleware are not used.
C6_NamedMiddlewareOrdered ==
    Built => \A md \in BuiltRegistered : IsNamed(md) => PlacedAsAsked(md)

\* auth with Before = [log], log and an anonymous metrics give [auth, log, metrics]
C6_Witness ==
    /\ Built
    /\ outcome.result = "ok"
    /\ BuiltStack.Items = << Middleware("auth", "h", <<"log">>, <<>>),
                             Middleware("log", "h", <<>>, <<>>),
                             Middleware("", "metrics", <<>>, <<>>) >>

\* The stack sid and its ByName map.
StackMap(sid) == heap[stacks[sid].ByName]

\* a must be placed before b, by the Before of a or the After of b.
MustPrecede(m) ==
    {e \in Names \X Names :
        /\ Has(m, e[1]) /\ Has(m, e[2])
        /\ (e[2] \in Range(m[e[1]].Before) \/ e[1] \in Range(m[e[2]].After))}

\* The pairs linked by a path of one or more edges.
RECURSIVE Paths(_, _)
Paths(edges, k) ==
    IF k = 0 THEN edges
    ELSE LET p == Paths(edges, k - 1)
         IN  p \cup {x \in Names \X Names :
                        \E e \in p, f \in edges : e[2] = f[1] /\ x = <<e[1], f[2]>>}

Cyclic(m) == \E n \in Names : <<n, n>> \in Paths(MustPrecede(m), Cardinality(Names))

\* A named middleware of the map m mentions a name that is not registered.
NamedUnresolved(m) ==
    \E n \in Registered(m) :
        \E ref \in Range(m[n].Before) \cup Range(m[n].After) : ~Has(m, ref)

\* A middleware of the stack, named or anonymous, mentions such a name.
AnyUnresolved(st, m) ==
    \/ NamedUnresolved(m)
    \/ \E i \in 1..Len(st.Anonymous) :
         \E ref \in Range(st.Anonymous[i].Before) \cup Range(st.Anonymous[i].After) :
            ~Has(m, ref)

\* This step is a call of op on the stack sid.
StepOf(op, sid) == outcome'.op = op /\ outcome'.stack = sid

\* C7 (as stated): Build() panics and leaves Items as they were when a
\* registered middleware mentions a name that is not registered, or when the
\* constraints form a cycle.
C7_BuildFailsOnAnyUnresolved ==
    [][ \A sid \in 1..Len(stacks) :
          (StepOf("Build", sid)
             /\ (AnyUnresolved(stacks[sid], StackMap(sid)) \/ Cyclic(StackMap(sid))))
          => /\ outcome'.result = "panic"
             /\ stacks'[sid].Items = stacks[sid].Items ]_vars

\* C7 (amended): Build() panics and leaves Items as they were when a
\* registered named middleware mentions a name that is not registered, or
\* when the constraints of the named middlewares form a cycle.
C7_BuildFailsOnNamedUnresolved ==
    [][ \A sid \in 1..Len(stacks) :
          (StepOf("Build", sid)
             /\ (NamedUnresolved(StackMap(sid)) \/ Cyclic(StackMap(sid))))
          => /\ outcome'.result = "panic"
             /\ stacks'[sid].Items = stacks[sid].Items
             /\ stacks'[sid].ItemsIsNil = stacks[sid].ItemsIsNil ]_vars

C7_Witness ==
    /\ outcome.op = "Build"
    /\ outcome.result = "panic"
    /\ NamedUnresolved(StackMap(outcome.stack))
    /\ ~Cyclic(StackMap(outcome.stack))
    /\ stacks[outcome.stack].Len = 2

\* C8: on a stack with no unresolved name and no cycle, a second Build()
\* gives the Items the first Build() gave.
C8_SecondBuildSameItems ==
    [][ \A sid \in 1..Len(stacks) :
          (Built /\ outcome.stack = sid /\ StepOf("Build", sid))
          => stacks'[sid].Items = stacks[sid].Items ]_vars

\* C9: Add of a named middleware whose name is registered: OVERRIDE puts the
\* new one under the name, SKIP keeps the existing one and goes on, ABORT
\* fails the call and keeps the existing one.
C9_DuplicatePolicy ==
    \A sid \in 1..Len(stacks) : \A md \in Named :
        Has(StackMap(sid), md.Name) =>
            LET m    == StackMap(sid)
                over == AddItems(stacks[sid], m, <<md>>, 1, DUPLICATION_OVERRIDE)
                skip == AddItems(stacks[sid], m, <<md>>, 1, DUPLICATION_SKIP)
                abrt == AddItems(stacks[sid], m, <<md>>, 1, DUPLICATION_ABORT)
            IN  /\ over.result = "ok" /\ over.m = [m EXCEPT ![md.Name] = md]
                /\ skip.result = "ok" /\ skip.m = m /\ skip.st = stacks[sid]
                /\ abrt.result = "panic" /\ abrt.m = m /\ abrt.st = stacks[sid]

\* An Add with SKIP met a registered name, kept it and went on to the next item.
C9_Witness ==
    /\ outcome.op = "Add"
    /\ outcome.option = DUPLICATION_SKIP
    /\ outcome.result = "ok"
    /\ budget = 3
    /\ stacks[1].Len = 2
    /\ Len(stacks[1].Anonymous) = 1
    /\ StackMap(1)["auth"] = Middleware("auth", "h", <<>>, <<>>)
    /\ StackMap(1)["log"] = Nil

\* What a stack holds: ByName, Anonymous, Items and Len.
Holds(sid) ==
    [ByName |-> StackMap(sid), Anonymous |-> stacks[sid].Anonymous,
     Items |-> stacks[sid].Items, Len |-> stacks[sid].Len]

\* C10: after c = s.Copy(), Add and Build on c leave what s holds unchanged,
\* and Add and Build on s leave what c holds unchanged.
C10_CopyIsIndependent ==
    [][ Len(stacks) = 2 =>
          \A sid \in 1..2 :
             (StepOf("Add", sid) \/ StepOf("Build", sid))
                => Holds(3 - sid)' = Holds(3 - sid) ]_vars

C10_Witness ==
    /\ Len(stacks) = 2
    /\ outcome.op = "Build" /\ outcome.stack = 2 /\ outcome.result = "ok"
    /\ Registered(StackMap(1)) = {"auth"}
    /\ Registered(StackMap(2)) = {"auth", "log"}
    /\ Len(stacks[2].Items) = 2
    /\ Len(stacks[1].Items) = 0

----------------------------------------------------------------------------
\* Mux: the handler built by the first request

\* number of requests served at the same time
NGoroutines == 2
\* number of Use() calls
MaxUses == 2

\* The middlewares handed to Use().
UseItems ==
    { <<Middleware("", "metrics", <<>>, <<>>)>>,
      <<Middleware("auth", "h", <<>>, <<>>)>> }

\* mx.handler == nil: the comparison reads the type word of the interface.
HandlerIsNil(h) == ~h.tab

\* A request that has not reached the call of the handler.
NotServed == [result |-> "none", handler |-> 0]

\* mx.handler.ServeHTTPContext(w, r, rctx): a method call on the interface read.
CallHandler(h) ==
    IF h.tab /\ h.data # 0 THEN [result |-> "dispatched", handler |-> h.data]
    ELSE [result |-> "nil dereference", handler |-> 0]

Goroutine(pc, h, stored, served) ==
    [pc |-> pc, h |-> h, stored |-> stored, served |-> served]

At(g, pc) == goroutines[g].pc = pc

Goto(g, pc) == goroutines' = [goroutines EXCEPT ![g].pc = pc]

\* mx.ServeHTTP(w, r) is called on one more goroutine.
Request(g) ==
    /\ At(g, "idle")
    /\ Goto(g, "check314")
    /\ UNCHANGED <<muxHandler, buildRouterMutex, constructed, muxMiddlewares, useOutcome>>
    /\ UNCHANGED <<chainVars, stackVars, dispatchVars, regVars>>

\* if mx.handler == nil {
Check314(g) ==
    /\ At(g, "check314")
    /\ IF HandlerIsNil(muxHandler) THEN Goto(g, "check316") ELSE Goto(g, "dispatch")
    /\ UNCHANGED <<muxHandler, buildRouterMutex, constructed, muxMiddlewares, useOutcome>>
    /\ UNCHANGED <<chainVars, stackVars, dispatchVars, regVars>>

\* if !mx.inline && mx.handler == nil { mx.buildRouteHandler() }
\* else { panic(ErrNoHandlers) }, on a Mux that is not inline
Check316(g) ==
    /\ At(g, "check316")
    /\ IF HandlerIsNil(muxHandler) THEN Goto(g, "lock")
       ELSE goroutines' = [goroutines EXCEPT
                ![g].pc = "done",
                ![g].served = [result |-> "ErrNoHandlers", handler |-> 0]]
    /\ UNCHANGED <<muxHandler, buildRouterMutex, constructed, muxMiddlewares, useOutcome>>
    /\ UNCHANGED <<chainVars, stackVars, dispatchVars, regVars>>

\* mx.buildRouterMutex.Lock()
Lock(g) ==
    /\ At(g, "lock")
    /\ buildRouterMutex = 0
    /\ buildRouterMutex' = g
    /\ Goto(g, "check689")
    /\ UNCHANGED <<muxHandler, constructed, muxMiddlewares, useOutcome>>
    /\ UNCHANGED <<chainVars, stackVars, dispatchVars, regVars>>

\* if mx.handler == nil {, with the mutex held
Check689(g) ==
    /\ At(g, "check689")
    /\ IF HandlerIsNil(muxHandler) THEN Goto(g, "build") ELSE Goto(g, "unlock")
    /\ UNCHANGED <<muxHandler, buildRouterMutex, constructed, muxMiddlewares, useOutcome>>
    /\ UNCHANGED <<chainVars, stackVars, dispatchVars, regVars>>

\* mx.middlewares.Build() and mx.chainHandler(h): the stack is built and the
\* handler is made.  The two interseptor stacks are empty, their Build() returns
\* at once.  The middlewares Use() takes have no unresolved name and no cycle.
BuildStacks(g) ==
    /\ At(g, "build")
    /\ \E r \in BuildOutcomes(muxMiddlewares.st, muxMiddlewares.m) :
         muxMiddlewares' = [muxMiddlewares EXCEPT !.st = r.st]
    /\ constructed' = constructed + 1
    /\ goroutines' = [goroutines EXCEPT ![g].pc = "store", ![g].h = constructed + 1]
    /\ UNCHANGED <<muxHandler, buildRouterMutex, useOutcome>>
    /\ UNCHANGED <<chainVars, stackVars, dispatchVars, regVars>>

\* mx.handler = ...: the store of an interface value is a store of its two
\* words, in the order the build chose.
StoreHandler(g) ==
    /\ At(g, "store")
    /\ \E word \in {"tab", "data"} \ goroutines[g].stored :
         /\ muxHandler' = IF word = "tab" THEN [muxHandler EXCEPT !.tab = TRUE]
                          ELSE [muxHandler EXCEPT !.data = goroutines[g].h]
         /\ goroutines' = [goroutines EXCEPT
                ![g].stored = @ \cup {word},
                ![g].pc = IF goroutines[g].stored = {} THEN "store" ELSE "unlock"]
    /\ UNCHANGED <<buildRouterMutex, constructed, muxMiddlewares, useOutcome>>
    /\ UNCHANGED <<chainVars, stackVars, dispatchVars, regVars>>

\* defer mx.buildRouterMutex.Unlock()
Unlock(g) ==
    /\ At(g, "unlock")
    /\ buildRouterMutex' = 0
    /\ Goto(g, "dispatch")
    /\ UNCHANGED <<muxHandler, constructed, muxMiddlewares, useOutcome>>
    /\ UNCHANGED <<chainVars, stackVars, dispatchVars, regVars>>

\* mx.handler.ServeHTTPContext(w, r, rctx)
Dispatch(g) ==
    /\ At(g, "dispatch")
    /\ goroutines' = [goroutines EXCEPT
           ![g].pc = "done", ![g].served = CallHandler(muxHandler)]
    /\ UNCHANGED <<muxHandler, buildRouterMutex, constructed, muxMiddlewares, useOutcome>>
    /\ UNCHANGED <<chainVars, stackVars, dispatchVars, regVars>>

\* No request is between its entry and its return.
Quiescent == \A g \in 1..Len(goroutines) : At(g, "idle") \/ At(g, "done")

\* mx.Use(middlewares...), while no request is being served
Use ==
    /\ Quiescent
    /\ useOutcome.calls < MaxUses
    /\ \E items \in UseItems :
         LET r == AddItems(muxMiddlewares.st, muxMiddlewares.m, items, 1, DUPLICATION_ABORT)
         IN  /\ muxMiddlewares' = [st |-> r.st, m |-> r.m]
             /\ useOutcome' = [calls |-> useOutcome.calls + 1,
                               sealed |-> ~HandlerIsNil(muxHandler),
                               result |-> r.result]
    /\ UNCHANGED <<muxHandler, buildRouterMutex, goroutines, constructed>>
    /\ UNCHANGED <<chainVars, stackVars, dispatchVars, regVars>>

\* NewMux(): handler nil, middlewares = NewMiddlewaresStack("Middlewares", true)
InitBuild ==
    /\ InitChainIdle
    /\ InitStackIdle
    /\ InitDispatchIdle
    /\ InitRegIdle
    /\ muxHandler = [tab |-> FALSE, data |-> 0]
    /\ buildRouterMutex = 0
    /\ goroutines = [g \in 1..NGoroutines |-> Goroutine("idle", 0, {}, NotServed)]
    /\ constructed = 0
    /\ muxMiddlewares = [st |-> NewMiddlewaresStack("Middlewares", TRUE, 0), m |-> EmptyMap]
    /\ useOutcome = [calls |-> 0, sealed |-> FALSE, result |-> "none"]

NextBuild ==
    \/ \E g \in 1..NGoroutines : Request(g)
    \/ \E g \in 1..NGoroutines : Check314(g)
    \/ \E g \in 1..NGoroutines : Check316(g)
    \/ \E g \in 1..NGoroutines : Lock(g)
    \/ \E g \in 1..NGoroutines : Check689(g)
    \/ \E g \in 1..NGoroutines : BuildStacks(g)
    \/ \E g \in 1..NGoroutines : StoreHandler(g)
    \/ \E g \in 1..NGoroutines : Unlock(g)
    \/ \E g \in 1..NGoroutines : Dispatch(g)
    \/ Use

\* Requests served at the same time by one Mux, and Use() calls between them.
SpecBuild == InitBuild /\ [][NextBuild]_vars

----------------------------------------------------------------------------
\* Properties of the lazily built handler

\* C11 (as stated): whatever the interleaving of the first requests, one
\* handler is made and every request that got as far as calling the handler
\* was dispatched through it; no request ends any other way.
C11_HandlerBuiltOnceAndShared ==
    /\ constructed <= 1
    /\ \A g \in 1..Len(goroutines) :
         /\ goroutines[g].served.result \in {"none", "dispatched"}
         /\ goroutines[g].served.result = "dispatched" => goroutines[g].served.handler = 1

\* C12 (as stated): a Use() made once the handler is built panics and leaves
\* the middleware stack as it was.
C12_UseAfterBuildRejected ==
    [][(useOutcome'.calls > useOutcome.calls /\ ~HandlerIsNil(muxHandler))
          => (useOutcome'.result = "panic" /\ muxMiddlewares' = muxMiddlewares)]_vars

----------------------------------------------------------------------------
\* OrderedMap: the URL parameters of a routing context

\* A nil *OrderedMapValue.
NoValue == [Key |-> "nil", Index |-> -1, Value |-> "nil"]

\* Faulty variant: the first value of the key is returned
GetFirstValue(p, key) ==
    IF key \in DOMAIN p.Map THEN p.Map[key].Values[1] ELSE NoValue

\* NewOrderedMap(): no key, no value, an empty Map
NewOrderedMap == [Keys |-> <<>>, Values |-> <<>>, Map |-> <<>>, Size |-> 0]

\* p.GetValue(key): the last value of the key, nil if the key is not in Map
GetValue(p, key) ==
    IF key \in DOMAIN p.Map THEN Last(p.Map[key].Values) ELSE NoValue

\* p.Get(key): "" when GetValue gives nil
OrderedMapGet(p, key) ==
    LET v == GetValue(p, key) IN IF v = NoValue THEN "" ELSE v.Value

\* p.AddKey(key): a key that is not in Map is put in Map and appended to Keys
AddKey(p, key) ==
    IF key \in DOMAIN p.Map THEN p
    ELSE [p EXCEPT !.Map = [k \in DOMAIN p.Map \cup {key} |->
                               IF k = key
                               THEN [Index |-> Len(p.Keys), Key |-> key, Values |-> <<>>]
                               ELSE p.Map[k]],
                   !.Keys = Append(@, key),
                   !.Size = Len(p.Keys) + 1]

\* p.Add(key, value): AddKey, AddValue, then the value is given its key and
\* appended to the values of the key
OrderedMapAdd(p, key, value) ==
    LET p1 == AddKey(p, key)
        v  == [Key |-> key, Index |-> Len(p1.Values), Value |-> value]
    IN  [p1 EXCEPT !.Values = Append(@, v),
                   !.Map[key].Values = Append(@, v)]

----------------------------------------------------------------------------
\* Mux: the tree of routes
\* A path or a pattern is the sequence of its characters.

\* number of routers, each mounted in the one before
Depth == 3

Methods == {"GET", "POST"}
\* ALL: the union of the methods
ALL == Methods
\* STUB: the bit that marks a mount stub
STUB == "STUB"
\* The methods a request can have: the ones above and one methodMap does not know.
RequestMethods == Methods \cup {"BREW"}

\* The pattern the routers are mounted at, "/a".
MountPattern == <<"/", "a">>

Route(pattern, method, handler) ==
    [pattern |-> pattern, method |-> method, handler |-> handler]

\* The handlers kept in the tree.
EndpointHandler(does) == [kind |-> "endpoint", does |-> does, router |-> 0]
\* &MountHandler{func(w, r, ctx) { ... }, mux}
MountHandler(parent, sub) == [kind |-> "mount", does |-> "mount", router |-> sub]
\* the handler of pattern + "/": mx.NotFoundHandler().ServeHTTPContext(w, r, arg)
NotFoundStub(parent) == [kind |-> "stub", does |-> "notfound", router |-> parent]
NoHandler == [kind |-> "none", does |-> "none", router |-> 0]

Patterns(t) == {rt.pattern : rt \in t}

\* tree.findPattern(pattern)
findPattern(t, pattern) == pattern \in Patterns(t)

\* tree.InsertRoute(overrides, method, pattern, handler, headers), without
\* headers: a pattern registered again for one of the methods is an error
\* unless overrides is set.
InsertRoute(t, overrides, methods, pattern, handler) ==
    LET clash == {rt \in t : rt.pattern = pattern /\ rt.method \in methods}
        added == {Route(pattern, m, handler) : m \in methods}
    IN  IF clash # {} /\ ~overrides THEN [tree |-> t, result |-> "panic"]
        ELSE [tree |-> (t \ clash) \cup added, result |-> "ok"]

\* mx.handle(method, pattern, handler), on a Mux that is not inline and
\* outside Api(), Headers() and Overrides()
handle(t, methods, pattern, handler) ==
    IF Len(pattern) = 0 \/ pattern[1] # "/" THEN [tree |-> t, result |-> "panic"]
    ELSE InsertRoute(t, FALSE, methods, pattern, handler)

\* The required headers of a handler of the tree, "nil" when it has none.
HeadersOf(h) == IF "headers" \in DOMAIN h THEN h.headers ELSE "nil"

\* The handler as the tree keeps it for the required headers.
WithHeaders(h, headers) ==
    IF headers = "nil" THEN h
    ELSE [kind |-> h.kind, does |-> h.does, router |-> h.router, headers |-> headers]

\* tree.InsertRoute(overrides, method, pattern, handler, headers): a pattern
\* registered again for one of the methods and the same headers is an error
\* unless overrides is set.
InsertRouteHeaders(t, overrides, methods, pattern, handler, headers) ==
    LET clash == {rt \in t : /\ rt.pattern = pattern
                             /\ rt.method \in methods
                             /\ HeadersOf(rt.handler) = headers}
        added == {Route(pattern, m, WithHeaders(handler, headers)) : m \in methods}
    IN  IF clash # {} /\ ~overrides THEN [tree |-> t, result |-> "panic"]
        ELSE [tree |-> (t \ clash) \cup added, result |-> "ok"]

\* The settings of a Mux that handle reads, as NewMux() leaves them.
MuxSettings ==
    [inline |-> FALSE, api |-> FALSE, headers |-> "nil", overrides |-> FALSE,
     ApiExtensions |-> <<"json">>]

\* The patterns handle registers: inside Api() pattern + "." + ext for every
\* extension ("/." + ext for the pattern "/"), then the pattern itself.
HandlePatterns(mx, pattern) ==
    (IF mx.api
     THEN [k \in 1..Len(mx.ApiExtensions) |->
              IF pattern = <<"/">> THEN <<"/", ".", mx.ApiExtensions[k]>>
              ELSE pattern \o <<".", mx.ApiExtensions[k]>>]
     ELSE <<>>) \o <<pattern>>

\* The InsertRoute calls of handle, one after the other: the first that
\* panics ends them, the routes inserted before it stay.
RECURSIVE InsertAll(_, _, _, _, _, _)
InsertAll(t, mx, methods, patterns, handler, k) ==
    IF k > Len(patterns) THEN [tree |-> t, result |-> "ok"]
    ELSE LET r == InsertRouteHeaders(t, mx.overrides, methods, patterns[k], handler,
                                     mx.headers)
         IN  IF r.result = "panic" THEN r
             ELSE InsertAll(r.tree, mx, methods, patterns, handler, k + 1)

\* mx.handle(method, pattern, handler) with the settings of mx; handler is
\* the handler after mx.chainHandler has wrapped it, if mx is inline
handleOn(mx, t, methods, pattern, handler) ==
    IF Len(pattern) = 0 \/ pattern[1] # "/" THEN [tree |-> t, result |-> "panic"]
    ELSE InsertAll(t, mx, methods, HandlePatterns(mx, pattern), handler, 1)

\* Faulty variant: only pattern + "*" is looked for
MountConflictStarOnly(t, pattern) == findPattern(t, pattern \o <<"*">>)

\* mx.tree.findPattern(pattern+"*") || mx.tree.findPattern(pattern+"/*")
MountConflict(t, pattern) ==
    findPattern(t, pattern \o <<"*">>) \/ findPattern(t, pattern \o <<"/", "*">>)

\* mx.Mount(pattern, sub) on the tree t of the router parent, sub being a Mux
MountRoutes(t, parent, pattern, sub) ==
    IF MountConflict(t, pattern) THEN [tree |-> t, result |-> "panic"]
    ELSE LET mh == MountHandler(parent, sub)
         IN  IF pattern = <<>> \/ Last(pattern) # "/"
             THEN LET r1 == handle(t, ALL \cup {STUB}, pattern, mh)
                      r2 == handle(r1.tree, ALL \cup {STUB}, pattern \o <<"/">>,
                                   NotFoundStub(parent))
                      r3 == handle(r2.tree, ALL \cup {STUB}, pattern \o <<"/", "*">>, mh)
                  IN  IF r1.result = "panic" THEN r1
                      ELSE IF r2.result = "panic" THEN r2
                      ELSE r3
             ELSE handle(t, ALL \cup {STUB}, pattern \o <<"*">>, mh)

\* The pattern matches the path: a pattern ending in "*" matches every path
\* that starts as the pattern does, any other pattern matches itself.
Matches(pattern, path) ==
    IF pattern # <<>> /\ Last(pattern) = "*"
    THEN IsPrefix(Front(pattern), path)
    ELSE pattern = path

\* The patterns of the tree that match the path, the most specific first:
\* the static one, then the wildcards from the longest to the shortest.
RECURSIVE LongestFirst(_)
LongestFirst(ps) ==
    IF ps = {} THEN <<>>
    ELSE LET longest == CHOOSE q \in ps : \A o \in ps : Len(o) <= Len(q)
         IN  <<longest>> \o LongestFirst(ps \ {longest})

Candidates(t, path) ==
    LET matching == {q \in Patterns(t) : Matches(q, path)}
        static == {q \in matching : Last(q) # "*"}
    IN  LongestFirst(static) \o LongestFirst(matching \ static)

\* The handler registered for the pattern and the method.
Lookup(t, pattern, method) ==
    LET found == {rt \in t : rt.pattern = pattern /\ rt.method = method}
    IN  IF found = {} THEN NoHandler ELSE (CHOOSE rt \in found : TRUE).handler

\* The part of the path a pattern ending in "*" captures.
Capture(pattern, path) == SubSeq(path, Len(pattern), Len(path))

\* The walk of FindRoute over the candidates cs[i..]: a pattern that matches
\* without the method sets methodNotAllowed and the walk goes on.
RECURSIVE Walk(_, _, _, _, _, _)
Walk(t, ctx, method, path, cs, i) ==
    IF i > Len(cs) THEN [ctx |-> ctx, handler |-> NoHandler]
    ELSE LET pattern == cs[i]
             h == Lookup(t, pattern, method)
         IN  IF h = NoHandler
             THEN Walk(t, [ctx EXCEPT !.methodNotAllowed = TRUE], method, path, cs, i + 1)
             ELSE IF Last(pattern) = "*"
             THEN [ctx |-> [ctx EXCEPT
                               !.routeParams = [Keys |-> <<"*">>,
                                                Values |-> <<Capture(pattern, path)>>],
                               !.URLParams = OrderedMapAdd(@, "*", Capture(pattern, path)),
                               !.routePattern = pattern,
                               !.RoutePatterns = Append(@, pattern)],
                   handler |-> h]
             ELSE [ctx |-> [ctx EXCEPT !.routePattern = pattern,
                                       !.RoutePatterns = Append(@, pattern)],
                   handler |-> h]

\* tree.FindRoute(rctx, method, path)
FindRoute(t, ctx, method, path) ==
    Walk(t, [ctx EXCEPT !.routePattern = <<>>,
                        !.routeParams = [Keys |-> <<>>, Values |-> <<>>]],
         method, path, Candidates(t, path), 1)

\* strings.LastIndex(str, sub): where sub starts in str for the last time,
\* counted from 1; 0 when sub is not in str (-1 in the code)
LastIndex(str, sub) ==
    LET at == {q \in 1..(Len(str) - Len(sub) + 1) :
                 SubSeq(str, q, q + Len(sub) - 1) = sub}
    IN  IF at = {} THEN 0 ELSE CHOOSE q \in at : \A o \in at : o <= q

\* The loop of routeHTTP over mx.ApiExtensions[k..], after a search that found
\* nothing: where "." + ext is in the path, the path is cut there, "/." + ext
\* is appended and the search is made again; a hit sets ApiExt.  tried lists
\* the paths searched.
RECURSIVE ApiRetry(_, _, _, _, _, _, _)
ApiRetry(t, ctx, method, routePath, exts, k, tried) ==
    IF k > Len(exts) THEN [ctx |-> ctx, handler |-> NoHandler, tried |-> tried]
    ELSE LET ext == exts[k]
             pos == LastIndex(routePath, <<".", ext>>)
             rewritten == SubSeq(routePath, 1, pos - 1) \o <<"/", ".", ext>>
             found == FindRoute(t, ctx, method, rewritten)
         IN  IF pos = 0 THEN ApiRetry(t, ctx, method, routePath, exts, k + 1, tried)
             ELSE IF found.handler # NoHandler
             THEN [ctx |-> [found.ctx EXCEPT !.ApiExt = ext], handler |-> found.handler,
                   tried |-> Append(tried, rewritten)]
             ELSE ApiRetry(t, found.ctx, method, rewritten, exts, k + 1,
                           Append(tried, rewritten))

\* Faulty variant: the captured tail is left out
nextRoutePathRoot(ctx) == <<"/">>

\* mx.nextRoutePath(rctx)
nextRoutePath(ctx) ==
    LET nx == Len(ctx.routeParams.Keys)
    IN  IF nx >= 1 /\ ctx.routeParams.Keys[nx] = "*" /\ Len(ctx.routeParams.Values) >= nx
        THEN <<"/">> \o ctx.routeParams.Values[nx]
        ELSE <<"/">>

----------------------------------------------------------------------------
\* RouteContext

\* &RouteContext{}: every field at its zero value
ZeroContext ==
    [Routes |-> "nil", RoutePath |-> <<>>, RouteMethod |-> "",
     RoutePatterns |-> <<>>, URLParams |-> "nil", routePattern |-> <<>>,
     routeParams |-> [Keys |-> <<>>, Values |-> <<>>], methodNotAllowed |-> FALSE,
     DefaultValueKey |-> "nil", Data |-> {}, RequestSetters |-> {},
     ChainRequestSetters |-> {}, Handler |-> "nil", RouterStack |-> <<>>,
     Log |-> "nil", ApiExt |-> ""]

\* x.Reset(): the fields it assigns; the others keep their value
ResetContext(x) ==
    [x EXCEPT !.Routes = "nil", !.RoutePath = <<>>, !.RouteMethod = "",
              !.RoutePatterns = <<>>, !.URLParams = NewOrderedMap,
              !.routePattern = <<>>,
              !.routeParams = [Keys |-> <<>>, Values |-> <<>>],
              !.methodNotAllowed = FALSE, !.Data = {}, !.RequestSetters = {},
              !.ChainRequestSetters = {}]

\* NewRouteContext()
NewRouteContext == ResetContext(ZeroContext)

\* A nil *RouteContext.
NoContext == <<>>

\* x.with(r): the router is pushed
with(x, r) == [x EXCEPT !.RouterStack = Append(@, r)]

\* Faulty variant: the deferred function leaves the stack as it is
PopNothing(x) == x

\* the function x.with(r) returns: x.RouterStack = x.RouterStack[0 : len-1]
PopRouter(x) == [x EXCEPT !.RouterStack = Front(@)]

\* x.SetValue(v): x.Data[x.DefaultValueKey] = v, the value the key had is
\* replaced.  Data is the set of the pairs of the map.
SetValue(x, v) ==
    [x EXCEPT !.Data = {p \in @ : p[1] # x.DefaultValueKey}
                          \cup {<<x.DefaultValueKey, v>>}]

----------------------------------------------------------------------------
\* Mux: one request dispatched through the routers

\* The patterns a router registers a GET endpoint at: "/x" or "/a/x".
OwnPatterns == {<<"/", "x">>, <<"/", "a", "/", "x">>}

\* What follows the mount prefixes in the path of the request.
Tails == {<<>>, <<"/">>, <<"/", "x">>, <<"/", "y">>}

RECURSIVE Repeat(_, _)
Repeat(str, k) == IF k = 0 THEN <<>> ELSE str \o Repeat(str, k - 1)

\* r.URL.Path
RequestPaths == {Repeat(MountPattern, k) \o t : k \in 0..(Depth - 1), t \in Tails} \ {<<>>}

\* Router i: a GET endpoint at own, and router i+1 mounted at MountPattern.
Router(i, own, does, logRequests, interseptErrors) ==
    LET t1 == handle({}, {"GET"}, own, EndpointHandler(does)).tree
        t2 == IF i < Depth THEN MountRoutes(t1, i, MountPattern, i + 1).tree ELSE t1
    IN  [tree |-> t2, logRequests |-> logRequests, interseptErrors |-> interseptErrors,
         ApiExtensions |-> <<"json">>, built |-> FALSE]

\* if mx.logRequests || mx.interseptErrors { ... defer func() { rec = recover() ... }() }
Recovers(mx) == mx.logRequests \/ mx.interseptErrors

\* Faulty variant: the log handler is deferred before the error handler
DefersLogFirst(mx) ==
    (IF mx.logRequests THEN <<"log">> ELSE <<>>)
        \o (IF mx.interseptErrors THEN <<"error">> ELSE <<>>)

\* defers: the error handler if interseptErrors, then the log handler if logRequests
Defers(mx) ==
    (IF mx.interseptErrors THEN <<"error">> ELSE <<>>)
        \o (IF mx.logRequests THEN <<"log">> ELSE <<>>)

\* The value the handler panics with.
PanicValue == "boom"

\* What the deferred functions do once rec = recover() has run: the error
\* handler is called when rec is not nil (DefaultErrorHandler writes 500),
\* the log handler is called always.
RunDefers(i, defers, rec) ==
    LET Ran(d) ==
            IF d = "error"
            THEN IF rec = "nil" THEN <<>>
                 ELSE <<[ev |-> "error", router |-> i, value |-> rec, status |-> 500]>>
            ELSE <<[ev |-> "log", router |-> i, value |-> rec, status |-> 0]>>
    IN  IF Len(defers) = 0 THEN <<>>
        ELSE IF Len(defers) = 1 THEN Ran(defers[1])
        ELSE Ran(defers[1]) \o Ran(defers[2])

MuxFrame(router, entry, pc, pooled) ==
    [router |-> router, entry |-> entry, pc |-> pc, pooled |-> pooled]

MuxTop == muxFrames[Len(muxFrames)]

\* GetOrNewRouteContextForRequest(r): the context the request carries, or a new one
GetOrNewRouteContextForRequest(carried) ==
    IF carried = NoContext THEN NewRouteContext ELSE carried

\* The context the request carries in its context.Context.
Carried == IF httpReq.ctx = "request" THEN routeCtx ELSE NoContext

\* mx.ServeHTTPContext(w, r, arg) up to the call of mx.handler, for router i
\* called with the frames fs below it: the context is found or made, the logger
\* set, the router pushed, the handler built if it was not.  With no middleware
\* registered mx.handler is routeHTTP itself.
Enter(i, arg, fs, evs) ==
    LET x1 == IF arg = NoContext THEN GetOrNewRouteContextForRequest(Carried) ELSE arg
        x2 == IF x1.Log = "nil" THEN [x1 EXCEPT !.Log = "logger"] ELSE x1
        x3 == with(x2, i)
        origin == IF arg # NoContext THEN "caller"
                  ELSE IF Carried # NoContext THEN "request" ELSE "NewRouteContext"
        entered == [ev |-> "enter", router |-> i, origin |-> origin]
    IN  /\ routers' = [routers EXCEPT ![i].built = TRUE]
        /\ IF x1 # NoContext
           THEN /\ routeCtx' = x3
                /\ muxFrames' = Append(fs, MuxFrame(i, x2.RouterStack, "route", FALSE))
                /\ events' = Append(evs, entered)
                /\ UNCHANGED pool
           ELSE \* rctx = mx.pool.Get(); rctx.Reset(); rctx.Routes = mx
                /\ routeCtx' = [ResetContext(pool.free) EXCEPT !.Routes = i]
                /\ muxFrames' = Append(fs, MuxFrame(i, <<>>, "route", TRUE))
                /\ events' = Append(evs, [entered EXCEPT !.origin = "pool"])
                /\ pool' = [pool EXCEPT !.gets = @ + 1]

\* mx.ServeHTTP(w, r), or mx.ServeHTTPContext(w, r, rctx) with the caller's context
MuxServeHTTP ==
    /\ muxStatus = "idle"
    /\ Enter(1, IF httpReq.ctx = "caller" THEN routeCtx ELSE NoContext, <<>>, events)
    /\ muxStatus' = "running"
    /\ UNCHANGED httpReq
    /\ UNCHANGED <<chainVars, stackVars, buildVars, regVars>>

SetMuxTop(f) == [muxFrames EXCEPT ![Len(muxFrames)] = f]

\* mx.routeHTTP(w, r, rctx) of the router on top, up to the call of the handler
\* it found: by the search of the path, or else by the searches of the loop
\* over mx.ApiExtensions.
routeHTTP ==
    /\ muxStatus = "running"
    /\ muxFrames # <<>>
    /\ MuxTop.pc = "route"
    /\ LET i == MuxTop.router
           routePath == IF routeCtx.RoutePath = <<>> THEN httpReq.path
                        ELSE routeCtx.RoutePath
           x1 == IF routeCtx.RouteMethod = ""
                 THEN [routeCtx EXCEPT !.RouteMethod = httpReq.method] ELSE routeCtx
           first == FindRoute(routers[i].tree, x1, x1.RouteMethod, routePath)
           retry == ApiRetry(routers[i].tree, first.ctx, x1.RouteMethod, routePath,
                             routers[i].ApiExtensions, 1, <<>>)
           found == IF first.handler # NoHandler THEN first
                    ELSE [ctx |-> retry.ctx, handler |-> retry.handler]
           h == found.handler
           retried == IF first.handler # NoHandler THEN <<>>
                      ELSE [k \in 1..Len(retry.tried) |->
                               [ev |-> "retry", router |-> i, path |-> retry.tried[k],
                                method |-> x1.RouteMethod]]
           searched == <<[ev |-> "search", router |-> i, path |-> routePath,
                          method |-> x1.RouteMethod]>> \o retried
           Answer(kind, by) == [ev |-> kind, router |-> by, path |-> routePath,
                                method |-> x1.RouteMethod]
       IN  IF x1.RouteMethod \notin Methods
           THEN \* mx.MethodNotAllowedHandler().ServeHTTPContext(w, r, rctx)
                /\ routeCtx' = x1
                /\ events' = Append(events, Answer("UnknownMethod", i))
                /\ muxFrames' = SetMuxTop([MuxTop EXCEPT !.pc = "return"])
                /\ UNCHANGED <<routers, pool>>
           ELSE CASE h.kind = "mount" ->
                       \* ctx.RoutePath = mx.nextRoutePath(ctx); the sub-router is called
                       LET x2 == [found.ctx EXCEPT !.RoutePath = nextRoutePath(found.ctx)]
                           mounted == [ev |-> "mount", router |-> h.router,
                                       path |-> x2.RoutePath, method |-> x1.RouteMethod]
                       IN  Enter(h.router, x2, SetMuxTop([MuxTop EXCEPT !.pc = "return"]),
                                 events \o searched \o <<mounted>>)
                  [] h.kind = "stub" ->
                       /\ routeCtx' = found.ctx
                       /\ events' = events \o searched \o <<Answer("NotFound", h.router)>>
                       /\ muxFrames' = SetMuxTop([MuxTop EXCEPT !.pc = "return"])
                       /\ UNCHANGED <<routers, pool>>
                  [] h.kind = "endpoint" ->
                       /\ routeCtx' = found.ctx
                       /\ events' = events \o searched \o <<Answer("endpoint", i)>>
                       /\ muxFrames' = SetMuxTop([MuxTop EXCEPT !.pc = h.does])
                       /\ UNCHANGED <<routers, pool>>
                  [] OTHER ->
                       /\ routeCtx' = found.ctx
                       /\ events' = events \o searched \o
                            <<Answer(IF found.ctx.methodNotAllowed
                                     THEN "MethodNotAllowed" ELSE "NotFound", i)>>
                       /\ muxFrames' = SetMuxTop([MuxTop EXCEPT !.pc = "return"])
                       /\ UNCHANGED <<routers, pool>>
    /\ UNCHANGED <<httpReq, muxStatus>>
    /\ UNCHANGED <<chainVars, stackVars, buildVars, regVars>>

\* The endpoint sets the key and the value of the context, x.DefaultValueKey =
\* "key" and x.SetValue("value"), and returns.
EndpointReturns ==
    /\ muxStatus = "running"
    /\ muxFrames # <<>>
    /\ MuxTop.pc = "ok"
    /\ routeCtx' = SetValue([routeCtx EXCEPT !.DefaultValueKey = "key"], "value")
    /\ muxFrames' = SetMuxTop([MuxTop EXCEPT !.pc = "return"])
    /\ UNCHANGED <<routers, httpReq, muxStatus, events, pool>>
    /\ UNCHANGED <<chainVars, stackVars, buildVars, regVars>>

\* The endpoint panics.
EndpointPanics ==
    /\ muxStatus = "running"
    /\ muxFrames # <<>>
    /\ MuxTop.pc = "panic"
    /\ muxStatus' = "panicking"
    /\ UNCHANGED <<routers, httpReq, routeCtx, muxFrames, events, pool>>
    /\ UNCHANGED <<chainVars, stackVars, buildVars, regVars>>

\* How the exit of ServeHTTPContext of router i is observed.
Exit(i, by, how, entry, after) ==
    [ev |-> "exit", router |-> i, by |-> by, how |-> how, entry |-> entry,
     after |-> after]

\* ServeHTTPContext of the router on top returns: the deferred functions run
\* (recover() gives nil), the context taken from the pool is put back, the
\* router is popped.
MuxReturn ==
    /\ muxStatus = "running"
    /\ muxFrames # <<>>
    /\ MuxTop.pc = "return"
    /\ LET i == MuxTop.router
           ran == IF Recovers(routers[i]) THEN RunDefers(i, Defers(routers[i]), "nil")
                  ELSE <<>>
           x == PopRouter(routeCtx)
       IN  /\ routeCtx' = x
           /\ events' = events \o ran
                          \o <<Exit(i, "return", "return", MuxTop.entry, x.RouterStack)>>
           /\ pool' = IF MuxTop.pooled THEN [pool EXCEPT !.puts = @ + 1, !.free = routeCtx]
                      ELSE pool
    /\ muxFrames' = Front(muxFrames)
    /\ muxStatus' = IF Len(muxFrames) = 1 THEN "done" ELSE "running"
    /\ UNCHANGED <<routers, httpReq>>
    /\ UNCHANGED <<chainVars, stackVars, buildVars, regVars>>

\* The panic reaches ServeHTTPContext of the router on top: where the function
\* with recover() was deferred the panic stops there and the deferred functions
\* run with rec the value of the panic; the router is popped either way.
MuxUnwind ==
    /\ muxStatus = "panicking"
    /\ muxFrames # <<>>
    /\ LET i == MuxTop.router
           x == PopRouter(routeCtx)
       IN  /\ routeCtx' = x
           /\ IF Recovers(routers[i])
              THEN /\ events' = events \o RunDefers(i, Defers(routers[i]), PanicValue)
                                  \o <<Exit(i, "panic", "return", MuxTop.entry, x.RouterStack)>>
                   /\ muxStatus' = IF Len(muxFrames) = 1 THEN "done" ELSE "running"
              ELSE /\ events' = Append(events,
                                  Exit(i, "panic", "panic", MuxTop.entry, x.RouterStack))
                   /\ muxStatus' = IF Len(muxFrames) = 1 THEN "panicked" ELSE "panicking"
    /\ muxFrames' = Front(muxFrames)
    /\ UNCHANGED <<routers, httpReq, pool>>
    /\ UNCHANGED <<chainVars, stackVars, buildVars, regVars>>

\* rctx.Reset(), on the context the dispatch has finished with
Reset ==
    /\ muxStatus \in {"done", "panicked"}
    /\ routeCtx' = ResetContext(routeCtx)
    /\ muxStatus' = "reset"
    /\ UNCHANGED <<routers, httpReq, muxFrames, events, pool>>
    /\ UNCHANGED <<chainVars, stackVars, buildVars, regVars>>

\* The routers that log requests or intercept errors.  A panic stops at the
\* innermost router that recovers and the routers around it only see a return:
\* two routers with these settings, anywhere in the nesting, cover every case.
Configured(logRequests, interseptErrors) ==
    {i \in 1..Depth : logRequests[i] \/ interseptErrors[i]}

\* Routers 1..Depth made by NewMux(), each with one endpoint and the next one
\* mounted, and one request: with no routing context, with one in the context
\* of the request, or with one handed to ServeHTTPContext.
InitMux ==
    /\ InitChainIdle
    /\ InitStackIdle
    /\ InitBuildIdle
    /\ InitRegIdle
    /\ \E does \in {"ok", "panic"} :
       \E own \in OwnPatterns :
       \E logRequests \in [1..Depth -> BOOLEAN] :
       \E interseptErrors \in [1..Depth -> BOOLEAN] :
         /\ Cardinality(Configured(logRequests, interseptErrors)) <= 2
         /\ routers = [i \in 1..Depth |->
                          Router(i, own, does, logRequests[i], interseptErrors[i])]
    /\ httpReq \in [method : RequestMethods, path : RequestPaths,
                    ctx : {"none", "request", "caller"}]
    /\ routeCtx = IF httpReq.ctx = "none" THEN NoContext ELSE NewRouteContext
    /\ muxFrames = <<>>
    /\ muxStatus = "idle"
    /\ events = <<>>
    /\ pool = [gets |-> 0, puts |-> 0, free |-> NewRouteContext]

NextMux ==
    \/ MuxServeHTTP
    \/ routeHTTP
    \/ EndpointReturns
    \/ EndpointPanics
    \/ MuxReturn
    \/ MuxUnwind
    \/ Reset

\* One request dispatched through the mounted routers.
SpecMux == InitMux /\ [][NextMux]_vars

----------------------------------------------------------------------------
\* Properties of one dispatch through the routers

IsExit(k) == events[k].ev = "exit"

\* ServeHTTPContext of a router was left by a panic reaching it.
PanicReached(k) == IsExit(k) /\ events[k].by = "panic"

\* C13 (as stated): a panic that reaches a router whose interseptErrors is
\* not set leaves its ServeHTTPContext as a panic, whatever logRequests is.
C13_PanicPropagatesUnlessIntercepted ==
    \A k \in 1..Len(events) :
        (PanicReached(k) /\ ~routers[events[k].router].interseptErrors)
            => events[k].how = "panic"

\* C14: when a panic reaches a router whose interseptErrors is set, its
\* ServeHTTPContext returns normally, the error handler was called once, with
\* the value of the panic, and wrote 500, the log handler (if logRequests) ran
\* after it, and no router around it is reached by the panic.
C14_InterceptRecoversAndReports ==
    \A k \in 1..Len(events) :
        (PanicReached(k) /\ routers[events[k].router].interseptErrors) =>
            LET i == events[k].router
                n == IF routers[i].logRequests THEN 2 ELSE 1
            IN  /\ events[k].how = "return"
                /\ k > n
                /\ events[k - n] = [ev |-> "error", router |-> i,
                                    value |-> PanicValue, status |-> 500]
                /\ routers[i].logRequests =>
                     (events[k - 1].ev = "log" /\ events[k - 1].router = i)
                /\ Cardinality({j \in 1..Len(events) :
                                  events[j].ev = "error" /\ events[j].router = i}) = 1
                /\ \A j \in (k + 1)..Len(events) : IsExit(j) => events[j].by = "return"

\* A handler of the innermost router panicked, that router intercepts errors
\* and logs requests, and the request has been served to the end.
C14_Witness ==
    /\ muxStatus = "done"
    /\ \E k \in 1..Len(events) :
         /\ PanicReached(k)
         /\ events[k].router = Depth
         /\ routers[Depth].interseptErrors
         /\ routers[Depth].logRequests

\* C15: while the dispatch runs RouterStack lists the routers being traversed,
\* the outermost first and the running one last, and every ServeHTTPContext,
\* left by a return or by a panic, leaves RouterStack as it found it.
C15_RouterStackDiscipline ==
    /\ muxStatus \in {"running", "panicking"} =>
         /\ routeCtx.RouterStack = [j \in 1..Len(muxFrames) |-> muxFrames[j].router]
         /\ \A j \in 1..Len(muxFrames) :
              muxFrames[j].entry = SubSeq(routeCtx.RouterStack, 1, j - 1)
    /\ \A k \in 1..Len(events) : IsExit(k) => events[k].after = events[k].entry

\* The innermost router was left by a panic, and the outermost by a return.
C15_Witness ==
    /\ \E k \in 1..Len(events) :
         /\ PanicReached(k)
         /\ events[k].router = Depth
         /\ events[k].how = "panic"
         /\ events[k].entry = [j \in 1..(Depth - 1) |-> j]
    /\ \E k \in 1..Len(events) :
         IsExit(k) /\ events[k].router = 1 /\ events[k].by = "return"

\* C16 (as stated): a dispatch entered without a routing context takes its
\* context from the pool and puts it back when it is done; a context that came
\* with the call is never put into the pool.
C16_ContextFromPoolAndBack ==
    muxStatus = "done" =>
        IF httpReq.ctx = "none"
        THEN events[1].origin = "pool" /\ pool.gets = 1 /\ pool.puts = 1
        ELSE pool.puts = 0

\* C17 (as stated): Reset() leaves the context equal, field by field, to the
\* one NewRouteContext() returns.
C17_ResetEqualsFresh ==
    [][(muxStatus' = "reset" /\ muxStatus # "reset") => routeCtx' = NewRouteContext]_vars

\* Some pattern of the tree matches the path and has no handler for the method.
MethodMissing(t, path, method) ==
    \E q \in Patterns(t) : Matches(q, path) /\ Lookup(t, q, method) = NoHandler

\* C18 (as stated): a router that found no handler answers MethodNotAllowed
\* exactly when a pattern of its own tree matches the path without the
\* method, and NotFound otherwise.
C18_MethodNotAllowedIffPathMatched ==
    \A k \in 2..Len(events) :
        (/\ events[k].ev \in {"NotFound", "MethodNotAllowed"}
         /\ events[k - 1].ev = "search"
         /\ events[k - 1].router = events[k].router)
        => (events[k].ev = "MethodNotAllowed"
              <=> MethodMissing(routers[events[k].router].tree,
                                events[k].path, events[k].method))

\* The path is the mount pattern, "/" and something more (which may be empty).
UnderMount(q) == IsPrefix(MountPattern \o <<"/">>, q)

\* What follows the mount pattern and "/" in the path.
Rest(q) == SubSeq(q, Len(MountPattern) + 2, Len(q))

\* The router mounted in router i searched the path.
SubSearched(k, i, path) ==
    /\ events[k + 1].ev = "mount"
    /\ events[k + 1].router = i + 1
    /\ events[k + 1].path = path
    /\ Len(events) >= k + 3 =>
         /\ events[k + 3].ev = "search"
         /\ events[k + 3].router = i + 1
         /\ events[k + 3].path = path

\* A search of a router that has a router mounted in it.
MountingSearch(k) ==
    /\ events[k].ev = "search"
    /\ events[k].router < Depth

\* C19 (as stated): at every level, the path P is searched in the mounted
\* router as "/", and the path P + "/" + rest as "/" + rest.
C19_SubRouterSearchesResidualPath ==
    \A k \in 1..Len(events) :
        MountingSearch(k) =>
            LET i == events[k].router
                q == events[k].path
            IN  /\ q = MountPattern => SubSearched(k, i, <<"/">>)
                /\ UnderMount(q) => SubSearched(k, i, <<"/">> \o Rest(q))

\* C19 (amended): at every level, the path P is searched in the mounted router
\* as "/"; the path P + "/" + rest, rest not empty and the path not a route of
\* the mounting router itself, is searched there as "/" + rest; the path
\* P + "/" is answered by the NotFound handler of the mounting router; and the
\* mounted router is searched in no other case.
C19_MountedRouterSearchesResidualPath ==
    \A k \in 1..Len(events) :
        MountingSearch(k) =>
            LET i == events[k].router
                q == events[k].path
                own == Lookup(routers[i].tree, q, events[k].method) # NoHandler
            IN  /\ q = MountPattern => SubSearched(k, i, <<"/">>)
                /\ (UnderMount(q) /\ Rest(q) # <<>> /\ ~own)
                     => SubSearched(k, i, <<"/">> \o Rest(q))
                /\ q = MountPattern \o <<"/">> =>
                     (events[k + 1].ev = "NotFound" /\ events[k + 1].router = i)
                /\ events[k + 1].ev = "mount" =>
                     \/ (q = MountPattern /\ SubSearched(k, i, <<"/">>))
                     \/ (UnderMount(q) /\ Rest(q) # <<>>
                           /\ SubSearched(k, i, <<"/">> \o Rest(q)))

\* The innermost router searched what followed the mount prefixes, "/x".
C19_Witness ==
    \E k \in 1..Len(events) :
        /\ MountingSearch(k)
        /\ events[k].router = Depth - 1
        /\ events[k].path = MountPattern \o <<"/", "x">>
        /\ Len(events) >= k + 3
        /\ SubSearched(k, Depth - 1, <<"/", "x">>)

----------------------------------------------------------------------------
\* Mux: registrations on the tree of one router

\* number of Get() and Mount() calls
MaxRegs == 3

\* The patterns handed to Get(): "/a", "/a/", "/a/*", "/a*", "/x".
GetPatterns ==
    { <<"/", "a">>, <<"/", "a", "/">>, <<"/", "a", "/", "*">>, <<"/", "a", "*">>,
      <<"/", "x">> }

\* The patterns handed to Mount(): "/a", "/a/", "/x", "" and "a".
MountPatterns == {<<"/", "a">>, <<"/", "a", "/">>, <<"/", "x">>, <<>>, <<"a">>}

\* What the last registration was and how it ended; mounted: the patterns
\* Mount() has returned normally for.
RegOutcome(calls, op, pattern, result, mounted) ==
    [calls |-> calls, op |-> op, pattern |-> pattern, result |-> result,
     mounted |-> mounted]

\* mx.Get(pattern, h)
Get ==
    /\ regOutcome.calls < MaxRegs
    /\ \E pattern \in GetPatterns :
         LET r == handle(tree, {"GET"}, pattern, EndpointHandler("ok"))
         IN  /\ tree' = r.tree
             /\ regOutcome' = RegOutcome(regOutcome.calls + 1, "Get", pattern, r.result,
                                         regOutcome.mounted)
    /\ UNCHANGED <<chainVars, stackVars, buildVars, dispatchVars>>

\* mx.Mount(pattern, sub), sub a router made by NewRouter()
Mount ==
    /\ regOutcome.calls < MaxRegs
    /\ \E pattern \in MountPatterns :
         LET r == MountRoutes(tree, 1, pattern, 2)
         IN  /\ tree' = r.tree
             /\ regOutcome' = RegOutcome(regOutcome.calls + 1, "Mount", pattern, r.result,
                                         IF r.result = "ok"
                                         THEN regOutcome.mounted \cup {pattern}
                                         ELSE regOutcome.mounted)
    /\ UNCHANGED <<chainVars, stackVars, buildVars, dispatchVars>>

\* NewMux(): tree = &node{}
InitMount ==
    /\ InitChainIdle
    /\ InitStackIdle
    /\ InitBuildIdle
    /\ InitDispatchIdle
    /\ tree = {}
    /\ regOutcome = RegOutcome(0, "none", <<>>, "none", {})

NextMount == Get \/ Mount

\* Get() and Mount() calls on one router.
SpecMount == InitMount /\ [][NextMount]_vars

----------------------------------------------------------------------------
\* Properties of the registrations

\* A Mount() call has just been made.
Mounted == regOutcome'.calls > regOutcome.calls /\ regOutcome'.op = "Mount"

\* The tree has P + "*" or P + "/*", or a Mount on P has returned before.
AlreadyMounted(P) ==
    \/ (P \o <<"*">>) \in Patterns(tree)
    \/ (P \o <<"/", "*">>) \in Patterns(tree)
    \/ P \in regOutcome.mounted

\* C20 (as stated): Mount(P, h) on a tree that has the pattern P + "*" or
\* P + "/*" panics, so a second Mount on a mounted pattern panics, and a Mount
\* that panics, for whatever reason, leaves the tree as it was.
C20_FailedMountRegistersNoRoute ==
    [][Mounted =>
          /\ AlreadyMounted(regOutcome'.pattern) => regOutcome'.result = "panic"
          /\ regOutcome'.result = "panic" => tree' = tree]_vars

\* C20 (amended): Mount(P, h) on a tree that has the pattern P + "*" or
\* P + "/*" panics and leaves the tree as it was; so does a Mount on a pattern
\* that a Mount has been made on before.
C20_MountOnMountedPatternFails ==
    [][(regOutcome'.calls > regOutcome.calls /\ regOutcome'.op = "Mount") =>
          LET P == regOutcome'.pattern
          IN  (\/ (P \o <<"*">>) \in Patterns(tree)
               \/ (P \o <<"/", "*">>) \in Patterns(tree)
               \/ P \in regOutcome.mounted)
              => (regOutcome'.result = "panic" /\ tree' = tree)]_vars

\* A second Mount on a mounted pattern has panicked, the tree holding the
\* routes of the first.
C20_Witness ==
    /\ regOutcome.op = "Mount"
    /\ regOutcome.result = "panic"
    /\ regOutcome.pattern \in regOutcome.mounted
    /\ (regOutcome.pattern \o <<"/", "*">>) \in Patterns(tree)

----------------------------------------------------------------------------
\* Properties of the index of the chain

\* The calls of the trace are of slots all different.
EachSlotCalledOnce(tr) ==
    \A j, k \in 1..Len(tr) :
        (IsCall(tr[j]) /\ IsCall(tr[k]) /\ j # k) => tr[j].slot # tr[k].slot

\* C30: during one dispatch, whatever the handlers call, Index never
\* decreases, and each middleware and the endpoint are invoked at most once.
C30_IndexMonotoneEachInvokedOnce ==
    [][/\ Index' >= Index
       /\ EachSlotCalledOnce(trace')]_vars

\* A handler called Next() twice and another Pass() and Next(), every handler
\* and the endpoint were invoked and the dispatch is over.
C30_Witness ==
    /\ status = "done"
    /\ Len(Calls) = Len(Middlewares) + 1
    /\ Index = Len(Middlewares) + 1
    /\ \E i \in 1..Len(Middlewares) : Middlewares[i].ops = <<"Next", "Next">>
    /\ \E i \in 1..Len(Middlewares) : Middlewares[i].ops = <<"Pass", "Next">>

----------------------------------------------------------------------------
\* OrderedMap: captures added to the URL parameters of one context

\* number of captures added
MaxParams == 4

\* The names captured: the wildcard and a named parameter.
ParamNames == {"*", "id"}
\* The values captured.
ParamValues == {"a", "b"}

\* rctx.URLParams.Add(key, value), as the routers on the way do for each
\* segment they capture
AddParam ==
    /\ Len(events) < MaxParams
    /\ \E key \in ParamNames : \E value \in ParamValues :
         /\ routeCtx' = [routeCtx EXCEPT !.URLParams = OrderedMapAdd(@, key, value)]
         /\ events' = Append(events, [key |-> key, value |-> value])
    /\ UNCHANGED <<routers, httpReq, muxFrames, muxStatus, pool>>
    /\ UNCHANGED <<chainVars, stackVars, buildVars, regVars>>

\* A context made by NewRouteContext(); events lists the captures added.
InitParams ==
    /\ InitChainIdle
    /\ InitStackIdle
    /\ InitBuildIdle
    /\ InitRegIdle
    /\ routers = <<>>
    /\ httpReq = <<>>
    /\ routeCtx = NewRouteContext
    /\ muxFrames = <<>>
    /\ muxStatus = "idle"
    /\ events = <<>>
    /\ pool = <<>>

NextParams == AddParam

\* Captures added to the URL parameters of one routing context.
SpecParams == InitParams /\ [][NextParams]_vars

\* The captures named k, in capture order.
CapturesOf(k) == SelectSeq(events, LAMBDA e : e.key = k)

\* Values lists the captured values in capture order, each with its name, and
\* Get(k) is the value of the most recent capture named k, "" if there is none.
ValuesAndGetFollowCaptures ==
    LET p == routeCtx.URLParams
    IN  /\ Len(p.Values) = Len(events)
        /\ \A j \in 1..Len(events) :
             /\ p.Values[j].Value = events[j].value
             /\ p.Values[j].Key = events[j].key
        /\ \A k \in ParamNames :
             OrderedMapGet(p, k) =
                 IF CapturesOf(k) = <<>> THEN "" ELSE Last(CapturesOf(k)).value

\* The names captured, each once, in the order of their first capture.
RECURSIVE FirstCaptures(_)
FirstCaptures(evs) ==
    IF evs = <<>> THEN <<>>
    ELSE LET before == FirstCaptures(Front(evs))
         IN  IF \E j \in 1..Len(before) : before[j] = Last(evs).key
             THEN before ELSE Append(before, Last(evs).key)

----------------------------------------------------------------------------
\* Mux: the NotFound and MethodNotAllowed handlers of mounted routers

\* number of NotFound(), MethodNotAllowed() and Mount() calls
MaxCalls == 3

\* The handlers handed to NotFound() and MethodNotAllowed().
CustomHandlers == {"h1", "h2"}

\* The two settings: NotFound() writes notFoundHandler, MethodNotAllowed()
\* writes methodNotAllowedHandler.
MissKinds == {"notFoundHandler", "methodNotAllowedHandler"}

\* A router made by NewMux(): no custom handler, nothing mounted.  direct: the
\* settings the application has set on this router by a call of its own, or
\* of a router With() made of it.  middlewares: len of what chainHandler chains.
PlainRouter ==
    [tree |-> {}, parent |-> 0, inline |-> FALSE, middlewares |-> 0,
     notFoundHandler |-> "nil", methodNotAllowedHandler |-> "nil", direct |-> {}]

\* parent.With(middlewares...): inline, its parent set, n middlewares held.
\* Its tree is the tree of the parent.
WithRouter(parent, n) ==
    [PlainRouter EXCEPT !.inline = TRUE, !.parent = parent, !.middlewares = n]

\* &ChainHandler{Middlewares: mws, Endpoint: h}, for the handlers handed to
\* NotFound() and MethodNotAllowed()
Chained(h) ==
    CASE h = "h1" -> "chain(h1)"
      [] h = "h2" -> "chain(h2)"
      [] OTHER -> h

\* mx.chainHandler(hh) on the router mx: Middlewares.Handler gives the handler
\* itself for no middlewares, a ChainHandler otherwise.
MissChain(mx, h) == IF mx.middlewares = 0 THEN h ELSE Chained(h)

\* The routers mx.tree.routes() lists as SubRoutes: the ones Mount() put on
\* the nodes of pattern + "*".
SubRoutes(t) ==
    {rt.handler.router : rt \in {q \in t : q.handler.kind = "mount" /\ Last(q.pattern) = "*"}}

\* mx.NotFoundHandler() and mx.MethodNotAllowedHandler(): the custom handler,
\* or the default one
MissHandler(mx, kind) == IF mx[kind] # "nil" THEN mx[kind] ELSE "default"

RECURSIVE SetMissHandler(_, _, _, _)
RECURSIVE updateSubRoutes(_, _, _, _)

\* m.updateSubRoutes(fn) over the mounted routers subs still to visit: fn
\* makes the same call on each that has no handler when it is visited.
updateSubRoutes(rs, subs, kind, hh) ==
    IF subs = {} THEN rs
    ELSE LET s == CHOOSE q \in subs : TRUE
             rs1 == IF rs[s][kind] = "nil" THEN SetMissHandler(rs, s, kind, hh) ELSE rs
         IN  updateSubRoutes(rs1, subs \ {s}, kind, hh)

\* mx.NotFound(handler) / mx.MethodNotAllowed(handler) on router i: on an
\* inline router with a parent the handler is chained and the parent is the
\* router written; the handler is set, then updateSubRoutes sets it on every
\* mounted router that has none, by the same call on that router.
SetMissHandler(rs, i, kind, handler) ==
    LET inl == rs[i].inline /\ rs[i].parent # 0
        m   == IF inl THEN rs[i].parent ELSE i
        hh  == IF inl THEN MissChain(rs[i], handler) ELSE handler
        rs1 == [rs EXCEPT ![m][kind] = hh]
    IN  updateSubRoutes(rs1, SubRoutes(rs1[m].tree), kind, hh)

\* The part of Mount() before the routes are registered: a sub-router without
\* a handler of its own is given the one of mx, if mx has one.
InheritMissHandler(rs, i, s, kind) ==
    IF rs[s][kind] = "nil" /\ rs[i][kind] # "nil"
    THEN SetMissHandler(rs, s, kind, rs[i][kind])
    ELSE rs

CallOutcome(calls, op, router) == [calls |-> calls, op |-> op, router |-> router]

\* mx.NotFound(h) or mx.MethodNotAllowed(h), called by the application
SetMiss(kind) ==
    /\ regOutcome.calls < MaxCalls
    /\ \E i \in 1..Len(routers) : \E h \in CustomHandlers :
         /\ LET m == IF routers[i].inline /\ routers[i].parent # 0
                     THEN routers[i].parent ELSE i
            IN  routers' = [SetMissHandler(routers, i, kind, h) EXCEPT
                               ![m].direct = @ \cup {kind}]
         /\ regOutcome' = CallOutcome(regOutcome.calls + 1, kind, i)
    /\ UNCHANGED <<httpReq, routeCtx, muxFrames, muxStatus, events, pool, tree>>
    /\ UNCHANGED <<chainVars, stackVars, buildVars>>

MuxNotFound == SetMiss("notFoundHandler")

MuxMethodNotAllowed == SetMiss("methodNotAllowedHandler")

\* The patterns the routers are mounted at: "/a" and "/b".
MissMountPatterns == {MountPattern, <<"/", "b">>}

\* mx.Mount(pattern, sub): router s, not mounted yet, is mounted in a router i
\* made before it
MountSub ==
    /\ regOutcome.calls < MaxCalls
    /\ \E i \in 1..(Depth - 1) : \E s \in (i + 1)..Depth :
       \E pattern \in MissMountPatterns :
         /\ routers[s].parent = 0
         /\ ~MountConflict(routers[i].tree, pattern)
         /\ LET rs1 == InheritMissHandler(routers, i, s, "notFoundHandler")
                rs2 == InheritMissHandler(rs1, i, s, "methodNotAllowedHandler")
            IN  routers' = [rs2 EXCEPT
                              ![s].parent = i,
                              ![i].tree = MountRoutes(@, i, pattern, s).tree]
         /\ regOutcome' = CallOutcome(regOutcome.calls + 1, "Mount", i)
    /\ UNCHANGED <<httpReq, routeCtx, muxFrames, muxStatus, events, pool, tree>>
    /\ UNCHANGED <<chainVars, stackVars, buildVars>>

\* Routers 1..Depth made by NewMux(), none mounted yet, and one more made by
\* With() of one of them.
InitMiss ==
    /\ InitChainIdle
    /\ InitStackIdle
    /\ InitBuildIdle
    /\ \E parent \in 1..Depth : \E n \in {0, 1} :
         routers = Append([i \in 1..Depth |-> PlainRouter], WithRouter(parent, n))
    /\ httpReq = <<>>
    /\ routeCtx = <<>>
    /\ muxFrames = <<>>
    /\ muxStatus = "idle"
    /\ events = <<>>
    /\ pool = <<>>
    /\ tree = {}
    /\ regOutcome = CallOutcome(0, "none", 0)

NextMiss == MuxNotFound \/ MuxMethodNotAllowed \/ MountSub

\* NotFound(), MethodNotAllowed() and Mount() calls on routers that are
\* mounted one in the other.
SpecMiss == InitMiss /\ [][NextMiss]_vars

\* C21 (as stated): a mounted router on which NotFound (MethodNotAllowed) was
\* never called directly answers its misses with the handler its parent has
\* at that time.
C21_SubRouterFollowsParentHandler ==
    \A s \in 1..Len(routers) : \A kind \in MissKinds :
        (routers[s].parent # 0 /\ ~routers[s].inline /\ kind \notin routers[s].direct)
            => MissHandler(routers[s], kind) = MissHandler(routers[routers[s].parent], kind)

----------------------------------------------------------------------------
\* Mux: one request dispatched to a router with an endpoint registered in Api()

\* The patterns registered: "/", "/a" and "/a/".
ApiPatterns == {<<"/">>, <<"/", "a">>, <<"/", "a", "/">>}

\* r.URL.Path: "/", "/a", "/a/", "/.json", "/a.json", "/a/.json", "/a.jsonx",
\* "/a.json/x"
ApiPaths ==
    ApiPatterns \cup
    { <<"/", ".", "json">>, <<"/", "a", ".", "json">>, <<"/", "a", "/", ".", "json">>,
      <<"/", "a", ".", "json", "x">>, <<"/", "a", ".", "json", "/", "x">> }

\* The settings of the router while fn of mx.Api(fn) runs, if it is in Api().
InApi(api) == [MuxSettings EXCEPT !.api = api]

\* A router made by NewMux() with mx.Get(pattern, h) called on it, inside
\* mx.Api(fn) or outside.
ApiRouter(api, pattern, does) ==
    [tree |-> handleOn(InApi(api), {}, {"GET"}, pattern, EndpointHandler(does)).tree,
     logRequests |-> FALSE, interseptErrors |-> FALSE,
     ApiExtensions |-> MuxSettings.ApiExtensions, built |-> FALSE]

InitApi ==
    /\ InitChainIdle
    /\ InitStackIdle
    /\ InitBuildIdle
    /\ InitRegIdle
    /\ \E api \in BOOLEAN : \E pattern \in ApiPatterns : \E does \in {"ok", "panic"} :
         routers = <<ApiRouter(api, pattern, does)>>
    /\ httpReq \in [method : RequestMethods, path : ApiPaths,
                    ctx : {"none", "request", "caller"}]
    /\ routeCtx = IF httpReq.ctx = "none" THEN NoContext ELSE NewRouteContext
    /\ muxFrames = <<>>
    /\ muxStatus = "idle"
    /\ events = <<>>
    /\ pool = [gets |-> 0, puts |-> 0, free |-> NewRouteContext]

\* One request dispatched to a router with one endpoint.
SpecApi == InitApi /\ [][NextMux]_vars

----------------------------------------------------------------------------
\* Properties of the API extensions

\* The endpoint of the router was registered at the pattern inside Api().
RegisteredInApi(pattern) ==
    \E does \in {"ok", "panic"} : routers[1].tree = ApiRouter(TRUE, pattern, does).tree

\* The handler of the endpoint is running.
HandlerRunning ==
    /\ muxStatus = "running"
    /\ muxFrames # <<>>
    /\ MuxTop.pc \in {"ok", "panic"}

\* The search is over and the handler of the endpoint was not called.
EndpointMissed ==
    /\ muxFrames # <<>>
    /\ MuxTop.pc = "return"
    /\ \A k \in 1..Len(events) : events[k].ev # "endpoint"

\* C23 (as stated): an endpoint registered at P inside Api() is reached by a
\* GET of P and by a GET of P + ".json", and while its handler runs for the
\* second one ApiExt is "json".
C23_ApiEndpointReachedWithExt ==
    \A P \in ApiPatterns :
        (RegisteredInApi(P) /\ httpReq.method = "GET") =>
            /\ httpReq.path \in {P, P \o <<".", "json">>} => ~EndpointMissed
            /\ (httpReq.path = P \o <<".", "json">> /\ HandlerRunning)
                 => routeCtx.ApiExt = "json"

\* The path ends with "." + ext.
EndsWithExt(path, ext) ==
    Len(path) >= 2 /\ SubSeq(path, Len(path) - 1, Len(path)) = <<".", ext>>

\* C24 (as stated): a path is searched again for the extension "json" only if
\* the effective path ends with ".json", and the path searched then is the
\* effective path with "/.json" in the place of that ending.
C24_RetryOnlyForTrailingExt ==
    \A k \in 2..Len(events) :
        (events[k].ev = "retry" /\ events[k - 1].ev = "search") =>
            /\ EndsWithExt(events[k - 1].path, "json")
            /\ events[k].path =
                 SubSeq(events[k - 1].path, 1, Len(events[k - 1].path) - 2)
                     \o <<"/", ".", "json">>
            /\ events[k].method = events[k - 1].method

\* ---------------------------------------------------------------------------
\* Mux: routes registered through an inline router (With / Group)
\* ---------------------------------------------------------------------------

\* number of Use(), Intersept(), Get() and ServeHTTP() calls
MaxInlineOps == 5

\* The stacks followed: the middlewares of the parent, and the interseptors
\* and the middlewares of the inline router parent.With() returned.
ParentMiddlewares == 1
InlineInterseptors == 2
InlineMiddlewares == 3

\* The middlewares handed to Use() of the inline router.
InlineCatalogue ==
    { Middleware("", "m1", <<>>, <<>>),
      Middleware("auth", "m2", <<>>, <<>>) }

\* The interseptors handed to Intersept() of the inline router.
InterseptCatalogue == { Middleware("auth", "i1", <<>>, <<>>) }

\* The middlewares handed to Use() of the parent.
ParentCatalogue == { Middleware("", "p1", <<>>, <<>>) }

\* The patterns routes are registered at, and the paths requested.
InlinePatterns == {<<"/", "x">>, <<"/", "y">>}

\* The routers: the parent made by NewMux() and the inline router made by
\* parent.With().  built: handler != nil; chain: the handlers of the
\* middlewares of the handler.
InlineRouters ==
    << [inline |-> FALSE, built |-> FALSE, chain |-> <<>>],
       [inline |-> TRUE, built |-> FALSE, chain |-> <<>>] >>

\* The Handler fields of a list of middlewares.
HandlersOf(items) == [k \in 1..Len(items) |-> items[k].Handler]

\* How many times x is in the list s.
Occurrences(s, x) == Cardinality({k \in 1..Len(s) : s[k] = x})

\* The handlers of the middlewares two stacks hold: the anonymous ones as
\* they were added, and the named ones.
Held(its, itsMap, mws, mwsMap) ==
    [anonymous |-> HandlersOf(its.Anonymous \o mws.Anonymous),
     named |-> {itsMap[n].Handler : n \in Registered(itsMap)}
                  \cup {mwsMap[n].Handler : n \in Registered(mwsMap)}]

\* Faulty variant: the chain is left out
HandlerBare(mws, h) == h

\* Middlewares.Handler(h): h itself for no middlewares, otherwise
\* &ChainHandler{Middlewares: mws, Endpoint: h}
MiddlewaresHandler(mws, h) ==
    IF Len(mws) = 0 THEN h
    ELSE [kind |-> "chain", does |-> h.does, router |-> 0, Middlewares |-> HandlersOf(mws)]

\* mx.chainHandler(h): both stacks are built, the interseptors first, and
\* their Items are chained ahead of h.  A Build that panics ends the call.
chainHandler(its, itsMap, mws, mwsMap, h) ==
    UNION {IF r1.result = "panic"
           THEN {[its |-> r1.st, mws |-> mws, result |-> "panic", handler |-> NoHandler]}
           ELSE {IF r2.result = "panic"
                 THEN [its |-> r1.st, mws |-> r2.st, result |-> "panic",
                       handler |-> NoHandler]
                 ELSE [its |-> r1.st, mws |-> r2.st, result |-> "ok",
                       handler |-> MiddlewaresHandler(r1.st.Items \o r2.st.Items, h)] :
                 r2 \in BuildOutcomes(mws, mwsMap)} :
           r1 \in BuildOutcomes(its, itsMap)}

\* The handlers a handler of the tree runs when every middleware calls Next:
\* the middlewares of its chain, then the endpoint.
HandlerCalls(h) ==
    IF h.kind = "chain" THEN Append(h.Middlewares, h.does) ELSE <<h.does>>

\* mx.routeHTTP for a GET of the path on the shared tree: the handlers run.
\* The paths requested hold no "." + ext, so the loop over ApiExtensions
\* searches nothing.
RouteCalls(t, path) ==
    LET f == FindRoute(t, NewRouteContext, "GET", path)
    IN  IF f.handler = NoHandler THEN <<"NotFound">> ELSE HandlerCalls(f.handler)

\* stack.AddInterface(items, option) on stack sid, called by op of router i
InlineAdd(op, i, sid, mds, option) ==
    /\ regOutcome.calls < MaxInlineOps
    /\ \E md \in mds :
         LET st == stacks[sid]
             r  == AddItems(st, heap[st.ByName], <<md>>, 1, option)
         IN  /\ stacks' = [stacks EXCEPT ![sid] = r.st]
             /\ heap' = [heap EXCEPT ![st.ByName] = r.m]
             /\ outcome' = Outcome("Add", sid, option, r.result)
    /\ regOutcome' = CallOutcome(regOutcome.calls + 1, op, i)
    /\ UNCHANGED <<budget, tree>>
    /\ UNCHANGED <<chainVars, buildVars, dispatchVars>>

\* inline.Use(md)
InlineUse == InlineAdd("Use", 2, InlineMiddlewares, InlineCatalogue, DUPLICATION_ABORT)

\* inline.Intersept(md): registerInterseptorOption is 0 on an inline router
InlineIntersept ==
    InlineAdd("Intersept", 2, InlineInterseptors, InterseptCatalogue, DUPLICATION_OVERRIDE)

\* parent.Use(md)
ParentUse == InlineAdd("Use", 1, ParentMiddlewares, ParentCatalogue, DUPLICATION_ABORT)

NothingHeld == [anonymous |-> <<>>, named |-> {}]

\* What a Get() did: the router, the pattern, the endpoint, the middlewares
\* the stacks of the inline router held when it was called, how it ended.
HandleEvent(i, pattern, endpoint, held, result) ==
    [ev |-> "handle", router |-> i, pattern |-> pattern, endpoint |-> endpoint,
     held |-> held, result |-> result]

\* inline.Get(pattern, endpoint): the handler of the inline router is set,
\* the endpoint is wrapped by chainHandler and inserted in the tree
InlineHandle ==
    /\ regOutcome.calls < MaxInlineOps
    /\ \E pattern \in InlinePatterns :
       LET its == stacks[InlineInterseptors]
           mws == stacks[InlineMiddlewares]
           endpoint == ToString(regOutcome.calls + 1)
           held == Held(its, heap[its.ByName], mws, heap[mws.ByName])
       IN  \E c \in chainHandler(its, heap[its.ByName], mws, heap[mws.ByName],
                                 EndpointHandler(endpoint)) :
             LET r == IF c.result = "panic" THEN [tree |-> tree, result |-> "panic"]
                      ELSE handleOn([MuxSettings EXCEPT !.inline = TRUE,
                                                        !.ApiExtensions = <<>>],
                                    tree, {"GET"}, pattern, c.handler)
             IN  /\ stacks' = [stacks EXCEPT ![InlineInterseptors] = c.its,
                                             ![InlineMiddlewares] = c.mws]
                 /\ tree' = r.tree
                 /\ events' = Append(events, HandleEvent(2, pattern, endpoint, held,
                                                         r.result))
    /\ routers' = [routers EXCEPT ![2].built = TRUE]
    /\ regOutcome' = CallOutcome(regOutcome.calls + 1, "Get", 2)
    /\ UNCHANGED <<heap, outcome, budget>>
    /\ UNCHANGED <<httpReq, routeCtx, muxFrames, muxStatus, pool>>
    /\ UNCHANGED <<chainVars, buildVars>>

\* parent.Get(pattern, endpoint)
ParentHandle ==
    /\ regOutcome.calls < MaxInlineOps
    /\ \E pattern \in InlinePatterns :
       LET endpoint == ToString(regOutcome.calls + 1)
           r == handleOn(MuxSettings, tree, {"GET"}, pattern, EndpointHandler(endpoint))
       IN  /\ tree' = r.tree
           /\ events' = Append(events, HandleEvent(1, pattern, endpoint, NothingHeld, r.result))
    /\ regOutcome' = CallOutcome(regOutcome.calls + 1, "Get", 1)
    /\ UNCHANGED <<routers, httpReq, routeCtx, muxFrames, muxStatus, pool>>
    /\ UNCHANGED <<chainVars, stackVars, buildVars>>

\* What a ServeHTTP() did: the router, the path, whether the router had a
\* handler and the tree had routes when it was called, the middlewares of
\* the router that ran, the handlers routeHTTP ran, how it ended.
ServeEvent(i, path, hadHandler, hadRoutes, own, ran, result) ==
    [ev |-> "serve", router |-> i, path |-> path, hadHandler |-> hadHandler,
     hadRoutes |-> hadRoutes, own |-> own, ran |-> ran, result |-> result]

\* router.ServeHTTP(w, GET path): a router that is not inline builds its
\* handler if it has none, an inline router without one panics; then the
\* handler runs: the chain of the router, routeHTTP, the handler found.
InlineServe ==
    /\ regOutcome.calls < MaxInlineOps
    /\ \E i \in 1..Len(routers) : \E path \in InlinePatterns :
       LET mx == routers[i]
           st == stacks[ParentMiddlewares]
       IN  IF mx.built
           THEN /\ events' = Append(events,
                       ServeEvent(i, path, TRUE, tree # {}, mx.chain,
                                  RouteCalls(tree, path), "ok"))
                /\ UNCHANGED <<routers, stacks>>
           ELSE IF mx.inline
           THEN /\ events' = Append(events,
                       ServeEvent(i, path, FALSE, tree # {}, <<>>, <<>>, "ErrNoHandlers"))
                /\ UNCHANGED <<routers, stacks>>
           ELSE \E b \in BuildOutcomes(st, heap[st.ByName]) :
                  /\ stacks' = [stacks EXCEPT ![ParentMiddlewares] = b.st]
                  /\ IF b.result = "panic"
                     THEN /\ events' = Append(events,
                                 ServeEvent(i, path, FALSE, tree # {}, <<>>, <<>>, "panic"))
                          /\ UNCHANGED routers
                     ELSE /\ routers' = [routers EXCEPT
                                           ![i].built = TRUE,
                                           ![i].chain = HandlersOf(b.st.Items)]
                          /\ events' = Append(events,
                                 ServeEvent(i, path, FALSE, tree # {},
                                            HandlersOf(b.st.Items),
                                            RouteCalls(tree, path), "ok"))
    /\ regOutcome' = CallOutcome(regOutcome.calls + 1, "ServeHTTP", 0)
    /\ UNCHANGED <<heap, outcome, budget, tree>>
    /\ UNCHANGED <<httpReq, routeCtx, muxFrames, muxStatus, pool>>
    /\ UNCHANGED <<chainVars, buildVars>>

\* parent := NewMux(); inline := parent.With()
InitInline ==
    /\ InitChainIdle
    /\ InitBuildIdle
    /\ heap = <<EmptyMap, EmptyMap, EmptyMap>>
    /\ stacks = << NewMiddlewaresStack("Middleware", TRUE, 1),
                   NewMiddlewaresStack("Interseptors", FALSE, 2),
                   NewMiddlewaresStack("Middleware", TRUE, 3) >>
    /\ outcome = NoOutcome
    /\ budget = 0
    /\ routers = InlineRouters
    /\ httpReq = <<>>
    /\ routeCtx = <<>>
    /\ muxFrames = <<>>
    /\ muxStatus = "idle"
    /\ events = <<>>
    /\ pool = <<>>
    /\ tree = {}
    /\ regOutcome = CallOutcome(0, "none", 0)

NextInline ==
    \/ InlineUse
    \/ InlineIntersept
    \/ ParentUse
    \/ InlineHandle
    \/ ParentHandle
    \/ InlineServe

\* Registrations on a router and on its inline router, and requests to both.
SpecInline == InitInline /\ [][NextInline]_vars

\* ---------------------------------------------------------------------------
\* Properties of inline routers
\* ---------------------------------------------------------------------------

\* The Get() that registered the endpoint.
RegistrationOf(endpoint) ==
    CHOOSE k \in 1..Len(events) :
        events[k].ev = "handle" /\ events[k].endpoint = endpoint

\* The requests that ran an endpoint.
Served ==
    {k \in 1..Len(events) :
        /\ events[k].ev = "serve"
        /\ events[k].result = "ok"
        /\ Last(events[k].ran) # "NotFound"}

\* C22: a route registered through the inline router runs, between the chain
\* of the router that owns the tree and the endpoint, each of the middlewares
\* the stacks of the inline router held when the route was registered, once,
\* and no other; a route registered on the parent runs none.
C22_InlineRouteRunsStackAtRegistration ==
    \A k \in Served :
        LET e == events[k]
            reg == events[RegistrationOf(Last(e.ran))]
            between == Front(e.ran)
        IN  /\ \A x \in Range(between) \cup Range(reg.held.anonymous) \cup reg.held.named :
                   Occurrences(between, x)
                       = Occurrences(reg.held.anonymous, x)
                           + (IF x \in reg.held.named THEN 1 ELSE 0)
            /\ reg.router = 1 => between = <<>>

\* A request ran a route of the inline router registered with a middleware,
\* after the inline router was given another middleware, and a route of the
\* parent is registered too.
C22_Witness ==
    /\ \E k \in Served :
         LET reg == events[RegistrationOf(Last(events[k].ran))]
             its == stacks[InlineInterseptors]
             mws == stacks[InlineMiddlewares]
         IN  /\ reg.router = 2
             /\ reg.held # NothingHeld
             /\ reg.held # Held(its, heap[its.ByName], mws, heap[mws.ByName])
    /\ \E k \in 1..Len(events) :
         events[k].ev = "handle" /\ events[k].router = 1 /\ events[k].result = "ok"

\* C27 (as stated): a request to a router without routes and without a
\* handler ends with ErrNoHandlers, and a request to a router on which a
\* route was registered never does.
C27_NoHandlersIffNoRoutes ==
    \A k \in 1..Len(events) :
        events[k].ev = "serve" =>
            /\ (~events[k].hadHandler /\ ~events[k].hadRoutes)
                   => events[k].result = "ErrNoHandlers"
            /\ (\E j \in 1..(k - 1) :
                  /\ events[j].ev = "handle"
                  /\ events[j].router = events[k].router
                  /\ events[j].result = "ok")
                   => events[k].result # "ErrNoHandlers"

\* ---------------------------------------------------------------------------
\* Mux: the scopes Api(), Headers() and Overrides()
\* ---------------------------------------------------------------------------

\* number of Api(), Headers(), Overrides(), With() and Get() calls
MaxScopeOps == 4
\* number of scopes open at a time
MaxScopes == 2

\* The headers handed to Headers().
ScopeHeaders == {"accept-json"}

\* The patterns Get() is called with.
ScopePatterns == {<<"/", "x">>, <<"/", "y">>}

\* The settings of a Mux that handle reads.  within: the calls of Api(),
\* Headers() and Overrides() that were running when the Mux was made.
ScopedMux(inline, exts, within) ==
    [inline |-> inline, api |-> FALSE, headers |-> "nil", overrides |-> FALSE,
     ApiExtensions |-> exts, within |-> within]

\* The activation of Api(f), Headers(h, f) or Overrides(f) that called f:
\* old is what the deferred function writes back; Overrides() called with
\* overrides already set defers nothing.
ScopeFrame(id, kind, value, old, deferred) ==
    [id |-> id, kind |-> kind, value |-> value, old |-> old, deferred |-> deferred]

\* The calls that are running.
Running == {muxFrames[k].id : k \in 1..Len(muxFrames)}

\* The settings the scopes that are running ask for: extension variants in
\* Api(), overrides in Overrides(), the headers of the innermost Headers().
InForce ==
    LET hs == {k \in 1..Len(muxFrames) : muxFrames[k].kind = "Headers"}
    IN  [api |-> \E k \in 1..Len(muxFrames) : muxFrames[k].kind = "Api",
         overrides |-> \E k \in 1..Len(muxFrames) : muxFrames[k].kind = "Overrides",
         headers |-> IF hs = {} THEN "nil"
                     ELSE muxFrames[CHOOSE k \in hs : \A o \in hs : o <= k].value]

\* A call is made by the application or by an f that is running.
CanCall ==
    /\ muxStatus = "idle"
    /\ regOutcome.calls < MaxScopeOps

\* mx.Api(f), up to the call of f
EnterApi ==
    /\ CanCall
    /\ Len(muxFrames) < MaxScopes
    /\ muxFrames' = Append(muxFrames,
                           ScopeFrame(regOutcome.calls + 1, "Api", TRUE, routers[1].api,
                                      TRUE))
    /\ routers' = [routers EXCEPT ![1].api = TRUE]
    /\ regOutcome' = CallOutcome(regOutcome.calls + 1, "Api", 1)
    /\ UNCHANGED <<httpReq, routeCtx, muxStatus, events, pool, tree>>
    /\ UNCHANGED <<chainVars, stackVars, buildVars>>

\* mx.Headers(headers, f), up to the call of f
EnterHeaders ==
    /\ CanCall
    /\ Len(muxFrames) < MaxScopes
    /\ \E h \in ScopeHeaders :
         /\ muxFrames' = Append(muxFrames,
                                ScopeFrame(regOutcome.calls + 1, "Headers", h,
                                           routers[1].headers, TRUE))
         /\ routers' = [routers EXCEPT ![1].headers = h]
    /\ regOutcome' = CallOutcome(regOutcome.calls + 1, "Headers", 1)
    /\ UNCHANGED <<httpReq, routeCtx, muxStatus, events, pool, tree>>
    /\ UNCHANGED <<chainVars, stackVars, buildVars>>

\* mx.Overrides(f), up to the call of f
EnterOverrides ==
    /\ CanCall
    /\ Len(muxFrames) < MaxScopes
    /\ muxFrames' = Append(muxFrames,
                           ScopeFrame(regOutcome.calls + 1, "Overrides", TRUE, FALSE,
                                      ~routers[1].overrides))
    /\ routers' = [routers EXCEPT ![1].overrides = TRUE]
    /\ regOutcome' = CallOutcome(regOutcome.calls + 1, "Overrides", 1)
    /\ UNCHANGED <<httpReq, routeCtx, muxStatus, events, pool, tree>>
    /\ UNCHANGED <<chainVars, stackVars, buildVars>>

\* The deferred function of the call on top runs and the call is left.
LeaveTop ==
    LET f == muxFrames[Len(muxFrames)]
    IN  /\ muxFrames' = Front(muxFrames)
        /\ routers' = IF ~f.deferred THEN routers
                      ELSE CASE f.kind = "Api" -> [routers EXCEPT ![1].api = f.old]
                             [] f.kind = "Headers" -> [routers EXCEPT ![1].headers = f.old]
                             [] OTHER -> [routers EXCEPT ![1].overrides = FALSE]

\* f returns
ScopeReturn ==
    /\ muxStatus = "idle"
    /\ muxFrames # <<>>
    /\ LeaveTop
    /\ UNCHANGED <<httpReq, routeCtx, muxStatus, events, pool, tree, regOutcome>>
    /\ UNCHANGED <<chainVars, stackVars, buildVars>>

\* f panics
ScopePanic ==
    /\ muxStatus = "idle"
    /\ muxFrames # <<>>
    /\ muxStatus' = "panicking"
    /\ UNCHANGED <<routers, httpReq, routeCtx, muxFrames, events, pool, tree, regOutcome>>
    /\ UNCHANGED <<chainVars, stackVars, buildVars>>

\* the panic leaves the call on top
ScopeUnwind ==
    /\ muxStatus = "panicking"
    /\ muxFrames # <<>>
    /\ LeaveTop
    /\ UNCHANGED <<httpReq, routeCtx, muxStatus, events, pool, tree, regOutcome>>
    /\ UNCHANGED <<chainVars, stackVars, buildVars>>

\* the caller recovers the panic
ScopeRecover ==
    /\ muxStatus = "panicking"
    /\ muxStatus' = "idle"
    /\ UNCHANGED <<routers, httpReq, routeCtx, muxFrames, events, pool, tree, regOutcome>>
    /\ UNCHANGED <<chainVars, stackVars, buildVars>>

\* mx.With() or mx.Group(nil): an inline Mux on the tree of mx
MakeInline ==
    /\ CanCall
    /\ Len(routers) = 1
    /\ routers' = Append(routers, ScopedMux(TRUE, <<>>, Running))
    /\ regOutcome' = CallOutcome(regOutcome.calls + 1, "With", 1)
    /\ UNCHANGED <<httpReq, routeCtx, muxFrames, muxStatus, events, pool, tree>>
    /\ UNCHANGED <<chainVars, stackVars, buildVars>>

\* What a Get() did: the router and the pattern, the settings the running
\* scopes ask for, whether they apply to the router, whether the pattern was
\* registered before with the headers asked for, the routes the tree got, how
\* it ended.
InsertEvent(i, pattern, asked, applies, existed, inserted, result) ==
    [ev |-> "insert", router |-> i, pattern |-> pattern, asked |-> asked,
     applies |-> applies, existed |-> existed, inserted |-> inserted, result |-> result]

\* r.Get(pattern, endpoint) on mx or on the inline Mux; the stacks of the
\* inline Mux are empty, so chainHandler returns the endpoint
ScopeInsert ==
    /\ CanCall
    /\ \E i \in 1..Len(routers) : \E pattern \in ScopePatterns :
         LET r == handleOn(routers[i], tree, {"GET"}, pattern,
                           EndpointHandler(ToString(regOutcome.calls + 1)))
             existed == \E rt \in tree : /\ rt.pattern = pattern
                                         /\ rt.method = "GET"
                                         /\ HeadersOf(rt.handler) = InForce.headers
         IN  /\ tree' = r.tree
             /\ events' = Append(events,
                    InsertEvent(i, pattern, InForce, Running \subseteq routers[i].within,
                                existed, r.tree \ tree, r.result))
             /\ muxStatus' = IF r.result = "panic" THEN "panicking" ELSE "idle"
             /\ regOutcome' = CallOutcome(regOutcome.calls + 1, "Get", i)
    /\ UNCHANGED <<routers, httpReq, routeCtx, muxFrames, pool>>
    /\ UNCHANGED <<chainVars, stackVars, buildVars>>

\* mx := NewMux()
InitScope ==
    /\ InitChainIdle
    /\ InitStackIdle
    /\ InitBuildIdle
    /\ routers = <<ScopedMux(FALSE, <<"json">>, {})>>
    /\ httpReq = <<>>
    /\ routeCtx = <<>>
    /\ muxFrames = <<>>
    /\ muxStatus = "idle"
    /\ events = <<>>
    /\ pool = <<>>
    /\ tree = {}
    /\ regOutcome = CallOutcome(0, "none", 0)

NextScope ==
    \/ EnterApi
    \/ EnterHeaders
    \/ EnterOverrides
    \/ ScopeReturn
    \/ ScopePanic
    \/ ScopeUnwind
    \/ ScopeRecover
    \/ MakeInline
    \/ ScopeInsert

\* Routes registered inside and outside the scopes of a router.
SpecScope == InitScope /\ [][NextScope]_vars

\* C25 (as stated): an insertion on the router, or on an inline router made
\* inside the scopes that are running, is made with the settings the running
\* scopes ask for: the extension variant is registered exactly in Api(), the
\* routes carry the headers of Headers(), and a pattern registered before is
\* replaced in Overrides() and refused outside.
C25_InsertUsesScopeSetting ==
    \A k \in 1..Len(events) :
        LET e == events[k]
            variant == e.pattern \o <<".", "json">>
        IN  e.applies =>
              /\ e.result = "ok" => (e.asked.api <=> variant \in Patterns(e.inserted))
              /\ \A rt \in e.inserted : HeadersOf(rt.handler) = e.asked.headers
              /\ e.existed => (e.asked.overrides <=> e.result = "ok")

\* ---------------------------------------------------------------------------
\* Mux: Match() and the dispatch of the same method and path
\* ---------------------------------------------------------------------------

\* mx.Match(rctx, method, path) on router i: a method methodMap does not know
\* matches nothing; the node found has subroutes where Mount() set them, on
\* its pattern + "*", and Match goes on in the router mounted there; any other
\* node matches when it has a handler.
RECURSIVE Match(_, _, _, _, _)
Match(rs, i, ctx, method, path) ==
    IF method \notin Methods THEN FALSE
    ELSE LET f == FindRoute(rs[i].tree, ctx, method, path)
             subroutes == /\ f.handler.kind = "mount"
                          /\ Last(f.ctx.routePattern) = "*"
             x == [f.ctx EXCEPT !.RoutePath = nextRoutePath(f.ctx)]
         IN  IF subroutes THEN Match(rs, f.handler.router, x, method, x.RoutePath)
             ELSE f.handler # NoHandler

\* routers[1].Match(NewRouteContext(), method, path), with the method and the
\* path of the request, before the request is served
MuxMatch ==
    /\ muxStatus = "idle"
    /\ regOutcome = "none"
    /\ regOutcome' = IF Match(routers, 1, NewRouteContext, httpReq.method, httpReq.path)
                     THEN "matched" ELSE "unmatched"
    /\ UNCHANGED <<tree, dispatchVars>>
    /\ UNCHANGED <<chainVars, stackVars, buildVars>>

\* The routers of InitMux, the outermost one intercepting errors or not.
InitMatch ==
    /\ InitChainIdle
    /\ InitStackIdle
    /\ InitBuildIdle
    /\ InitRegIdle
    /\ \E does \in {"ok", "panic"} :
       \E own \in OwnPatterns :
       \E intersept \in BOOLEAN :
         routers = [i \in 1..Depth |-> Router(i, own, does, FALSE, intersept /\ i = 1)]
    /\ httpReq \in [method : RequestMethods, path : RequestPaths,
                    ctx : {"none", "request", "caller"}]
    /\ routeCtx = IF httpReq.ctx = "none" THEN NoContext ELSE NewRouteContext
    /\ muxFrames = <<>>
    /\ muxStatus = "idle"
    /\ events = <<>>
    /\ pool = [gets |-> 0, puts |-> 0, free |-> NewRouteContext]

NextMatch == MuxMatch \/ NextMux

\* Match() called with the method and the path of a request, and the request
\* dispatched through the same routers.
SpecMatch == InitMatch /\ [][NextMatch]_vars

\* C28 (as stated): Match() returned true exactly when the dispatch of the
\* same method and path ran an endpoint, not a NotFound or MethodNotAllowed
\* handler.
C28_MatchIffEndpointDispatched ==
    (regOutcome # "none" /\ muxStatus \in {"done", "panicked", "reset"}) =>
        (regOutcome = "matched" <=> \E k \in 1..Len(events) : events[k].ev = "endpoint")

\* ---------------------------------------------------------------------------
\* Mux: the handler interseptors of mounted routers
\* ---------------------------------------------------------------------------

\* number of HandlerIntersept() and ServeHTTP() calls
MaxIntercepts == 3

\* The handler interseptor HandlerIntersept() of router i is called with: its
\* Handler tells the router it was registered on.
Interseptor(name, i) == Middleware(name, ToString(i), <<>>, <<>>)

\* The router a handler interseptor was registered on.
LevelOf(handler) == CHOOSE i \in 1..Depth : ToString(i) = handler

\* The name and the handler of each middleware of a list.
Identities(items) == [k \in 1..Len(items) |-> <<items[k].Name, items[k].Handler>>]

\* stack.All(): Items if it is not nil, otherwise the anonymous middlewares
\* and then the named ones as the range over the map gives them
All(st, m) ==
    IF ~st.ItemsIsNil THEN {st.Items}
    ELSE {st.Anonymous \o [k \in 1..Len(p) |-> m[p[k]]] : p \in Perms(Registered(m))}

\* hinterseptors of buildRouteHandler of router i: All() of every router from
\* the outermost ancestor to router i that has Len > 0, one after the other.
\* Router p is mounted in router p - 1; its stack is sts[p], its map hp[p].
RECURSIVE Gathered(_, _, _, _)
Gathered(sts, hp, p, i) ==
    IF p > i THEN {<<>>}
    ELSE LET own == IF sts[p].Len > 0 THEN All(sts[p], hp[p]) ELSE {<<>>}
         IN  {a \o rest : a \in own, rest \in Gathered(sts, hp, p + 1, i)}

\* mx.ServeHTTPContext of routers i..k, one called by the mount handler of the
\* other: a router without a handler builds it, which adds the gathered
\* handler interseptors to its own with DUPLICATION_SKIP and builds the stack.
RECURSIVE BuildRouteHandlers(_, _, _, _, _)
BuildRouteHandlers(sts, hp, rs, i, k) ==
    IF i > k THEN {[stacks |-> sts, heap |-> hp, routers |-> rs, result |-> "ok"]}
    ELSE IF rs[i].built THEN BuildRouteHandlers(sts, hp, rs, i + 1, k)
    ELSE UNION {
           LET added == AddItems(sts[i], hp[i], hinterseptors, 1, DUPLICATION_SKIP)
           IN  UNION {
                 IF b.result = "panic"
                 THEN {[stacks |-> [sts EXCEPT ![i] = b.st],
                        heap |-> [hp EXCEPT ![i] = added.m],
                        routers |-> rs, result |-> "panic"]}
                 ELSE BuildRouteHandlers([sts EXCEPT ![i] = b.st],
                                         [hp EXCEPT ![i] = added.m],
                                         [rs EXCEPT ![i].built = TRUE], i + 1, k) :
                 b \in BuildOutcomes(added.st, added.m)} :
           hinterseptors \in Gathered(sts, hp, 1, i)}

\* What routeHTTP runs around the handler it found: nothing around a mount
\* handler, mx.handlerInterseptors.Items around an endpoint.
Intercepted(kind, items) == IF kind = "mount" THEN <<>> ELSE Identities(items)

\* What routeHTTP of routers i..(k - 1) ran around their mount handlers.
RECURSIVE AroundMounts(_, _, _)
AroundMounts(sts, i, k) ==
    IF i >= k THEN <<>>
    ELSE Intercepted("mount", sts[i].Items) \o AroundMounts(sts, i + 1, k)

\* mx.HandlerIntersept(md) on router i, before the first request:
\* registerHandlerInterseptorOption is 0
HandlerIntersept ==
    /\ regOutcome.calls < MaxIntercepts
    /\ \A i \in 1..Len(routers) : ~routers[i].built
    /\ \E i \in 1..Len(routers) : \E name \in Names :
         LET r == AddItems(stacks[i], heap[i], <<Interseptor(name, i)>>, 1,
                           DUPLICATION_OVERRIDE)
         IN  /\ stacks' = [stacks EXCEPT ![i] = r.st]
             /\ heap' = [heap EXCEPT ![i] = r.m]
             /\ outcome' = Outcome("Add", i, DUPLICATION_OVERRIDE, r.result)
             /\ events' = Append(events, [ev |-> "intersept", router |-> i,
                                          name |-> name, result |-> r.result])
             /\ regOutcome' = CallOutcome(regOutcome.calls + 1, "HandlerIntersept", i)
    /\ UNCHANGED <<budget, tree>>
    /\ UNCHANGED <<routers, httpReq, routeCtx, muxFrames, muxStatus, pool>>
    /\ UNCHANGED <<chainVars, buildVars>>

\* routers[1].ServeHTTP(w, r) for a GET of the endpoint of router k: the
\* routers 1..k are entered and build their handlers, the mount handlers of
\* routers 1..(k - 1) are called, router k runs its endpoint.
InterceptServe ==
    /\ regOutcome.calls < MaxIntercepts
    /\ \E k \in 1..Len(routers) :
       \E b \in BuildRouteHandlers(stacks, heap, routers, 1, k) :
         /\ stacks' = b.stacks
         /\ heap' = b.heap
         /\ routers' = b.routers
         /\ events' = Append(events,
                [ev |-> "serve", router |-> k, result |-> b.result,
                 mounts |-> IF b.result = "ok" THEN AroundMounts(b.stacks, 1, k)
                            ELSE <<>>,
                 ran |-> IF b.result = "ok"
                         THEN Intercepted("endpoint", b.stacks[k].Items) ELSE <<>>])
    /\ regOutcome' = CallOutcome(regOutcome.calls + 1, "ServeHTTP", 1)
    /\ UNCHANGED <<outcome, budget, tree>>
    /\ UNCHANGED <<httpReq, routeCtx, muxFrames, muxStatus, pool>>
    /\ UNCHANGED <<chainVars, buildVars>>

\* Routers 1..Depth made by NewMux(), each mounted in the one before, each
\* with an endpoint.
InitIntercept ==
    /\ InitChainIdle
    /\ InitBuildIdle
    /\ heap = [i \in 1..Depth |-> EmptyMap]
    /\ stacks = [i \in 1..Depth |-> NewMiddlewaresStack("HandlerInterseptors", FALSE, i)]
    /\ outcome = NoOutcome
    /\ budget = 0
    /\ routers = [i \in 1..Depth |-> [built |-> FALSE]]
    /\ httpReq = <<>>
    /\ routeCtx = <<>>
    /\ muxFrames = <<>>
    /\ muxStatus = "idle"
    /\ events = <<>>
    /\ pool = <<>>
    /\ tree = {}
    /\ regOutcome = CallOutcome(0, "none", 0)

NextIntercept == HandlerIntersept \/ InterceptServe

\* Handler interseptors registered on mounted routers, then requests.
SpecIntercept == InitIntercept /\ [][NextIntercept]_vars

\* The handler interseptors registered on the routers 1..k.
RegisteredUpTo(k) ==
    {<<events[j].name, ToString(events[j].router)>> :
        j \in {q \in 1..Len(events) : events[q].ev = "intersept" /\ events[q].router <= k}}

\* C29 (as stated): a request resolved by the endpoint of router k runs every
\* handler interseptor registered on the routers 1..k once before the
\* endpoint, the ones of an outer router ahead of the ones of an inner router,
\* and none around a mount handler.
C29_AncestorInterseptorsRunOnceInOrder ==
    \A j \in 1..Len(events) :
        (events[j].ev = "serve" /\ events[j].result = "ok") =>
            LET ran == events[j].ran
            IN  /\ Range(ran) = RegisteredUpTo(events[j].router)
                /\ Len(ran) = Cardinality(RegisteredUpTo(events[j].router))
                /\ \A a, b \in 1..Len(ran) :
                       a < b => LevelOf(ran[a][2]) <= LevelOf(ran[b][2])
                /\ events[j].mounts = <<>>

----------------------------------------------------------------------------
\* Properties of a middleware that ends the chain

\* The returns of middlewares that called neither Next() nor Pass().
StoppedAt ==
    {j \in 1..Len(trace) :
        /\ trace[j].ev = "ret"
        /\ trace[j].slot < Len(Middlewares)
        /\ ~trace[j].passed
        /\ ~trace[j].nexted}

\* C31 (as stated): once a middleware returned without having called Next()
\* or Pass(), no middleware after it and not the endpoint is invoked.
C31_NoInvocationAfterStop ==
    \A j \in StoppedAt : \A k \in (j + 1)..Len(trace) :
        IsCall(trace[k]) => trace[k].slot <= trace[j].slot

----------------------------------------------------------------------------
\* Properties of the length of the stack

\* C32 (as stated): Len is the number of registered names plus the number of
\* anonymous middlewares, the length Items has after Build().
C32_LenCountsRegistered ==
    \A sid \in 1..Len(stacks) :
        /\ stacks[sid].Len
             = Cardinality(Registered(StackMap(sid))) + Len(stacks[sid].Anonymous)
        /\ (Built /\ outcome.stack = sid) => Len(stacks[sid].Items) = stacks[sid].Len


----------------------------------------------------------------------------
\* ChainHandler: requests served by one handler, by ServeHTTP and by
\* ServeHTTPContext.  Nothing synchronises the goroutines: every read and
\* every write of a field of the handler is a step of its own.

\* The ways into the handler.
Entries == {"ServeHTTP", "ServeHTTPContext"}

\* The variables of the chain a request leaves alone.
besideHandler == <<Middlewares, Endpoint, values, frames, status, trace>>

\* The fields of the ChainHandler that Next saves, in the order of line 73.
SavedFields == <<"Writer", "request", "Context">>

\* The local of Next that holds the saved field: w, r, arg := ...
SavedIn == [Writer |-> "w", request |-> "r", Context |-> "arg"]

\* The fields of a ChainHandler that a dispatch reads and writes.
ChainHandler(w, r, c, i, n) ==
    [Writer |-> w, request |-> r, Context |-> c, Index |-> i, next |-> n]

NoRunner == ChainHandler(NoWriter, NoRequest, "none", 0, FALSE)

\* What the endpoint was called with.
NotCalled == [Writer |-> NoWriter, request |-> NoRequest, Context |-> "none"]

\* A goroutine in a dispatch: where it is, the way it came in, the
\* ChainHandler that ServeHTTPContext made for it, the field it is at in a
\* statement over several fields, the locals (the Index read by c.Index++,
\* the slot of h, the c.next read by the loop), the activations of Next it
\* has not left, the slots it invoked (len(c.Middlewares) is the endpoint),
\* the arguments of the endpoint, whether it panics.
Dispatching(pc, entry, copy, snaps) ==
    [pc |-> pc, entry |-> entry, copy |-> copy, at |-> 1, loaded |-> 0, read |-> 0,
     flag |-> FALSE, snaps |-> snaps, called |-> <<>>, served |-> NotCalled,
     panics |-> FALSE]

\* The request and the writer of goroutine g.
RequestOf(g) == Req(ToString(g), "bg")
WriterOf(g) == <<"raw", ToString(g)>>

\* The ChainHandler the goroutine runs Next() on: ServeHTTP runs
\* c.Next(w, r, c.Context) on the handler itself, ServeHTTPContext runs
\* copy.Next() on a ChainHandler of its own.
RunnerOf(g) ==
    IF goroutines[g].entry = "ServeHTTP"
    THEN ChainHandler(Writer, request, Context, Index, next)
    ELSE goroutines[g].copy

\* One read of a field of that ChainHandler.
FieldOf(g, field) == RunnerOf(g)[field]

\* One write of a field of that ChainHandler; gs is what the goroutines
\* become beside it.
WriteField(g, gs, field, v) ==
    IF goroutines[g].entry = "ServeHTTP"
    THEN /\ goroutines' = gs
         /\ Writer' = IF field = "Writer" THEN v ELSE Writer
         /\ request' = IF field = "request" THEN v ELSE request
         /\ Context' = IF field = "Context" THEN v ELSE Context
         /\ Index' = IF field = "Index" THEN v ELSE Index
         /\ next' = IF field = "next" THEN v ELSE next
    ELSE /\ goroutines' = [gs EXCEPT ![g].copy[field] = v]
         /\ UNCHANGED <<Writer, request, Context, Index, next>>

\* The step reads at most: no field of the handler is written.
ReadOnly(g, gs) ==
    /\ goroutines' = gs
    /\ UNCHANGED <<Writer, request, Context, Index, next>>

\* What every step of a dispatch leaves alone.
ServeFrame ==
    /\ UNCHANGED besideHandler
    /\ UNCHANGED <<stackVars, dispatchVars, regVars>>
    /\ UNCHANGED <<muxHandler, buildRouterMutex, constructed, muxMiddlewares, useOutcome>>

\* The activation of Next the goroutine is in.
TopSnap(g) == Last(goroutines[g].snaps)
SetTopSnap(g, f) == [goroutines[g].snaps EXCEPT ![Len(goroutines[g].snaps)] = f]

\* c.ServeHTTP(w, r) is called on one more goroutine: c.Context is read for
\* the call c.Next(w, r, c.Context), and Next is entered.
ChainServeHTTP(g) ==
    /\ At(g, "idle")
    /\ LET vs == << [t |-> "http.ResponseWriter", v |-> WriterOf(g)],
                    [t |-> "*http.Request", v |-> RequestOf(g)],
                    [t |-> "*RouteContext", v |-> Context] >>
       IN  ReadOnly(g, [goroutines EXCEPT ![g] =
               Dispatching("snapshot", "ServeHTTP", NoRunner,
                           <<NextFrame(NoRunner, vs, FALSE)>>)])
    /\ UNCHANGED ctxHandler
    /\ ServeFrame

\* c.ServeHTTPContext(w, r, rctx) is called on one more goroutine:
\* rctx.Handler = c.Endpoint, the copy is made with Index 0, and copy.Next()
\* is entered.
ChainServeHTTPContext(g) ==
    /\ At(g, "idle")
    /\ \E rctx \in RouteContexts \cup {"nil"} :
         LET c   == ContextOrNew(rctx)
             run == ChainHandler(ResponseWriter(WriterOf(g)), RequestOf(g), c, 0, FALSE)
         IN  /\ ctxHandler' = [ctxHandler EXCEPT ![c] = "Endpoint"]
             /\ ReadOnly(g, [goroutines EXCEPT ![g] =
                    Dispatching("snapshot", "ServeHTTPContext", run,
                                <<NextFrame(NoRunner, <<>>, FALSE)>>)])
    /\ ServeFrame

\* w, r, arg := c.Writer, c.request, c.Context: one field is read and kept.
ChainSnapshot(g) ==
    /\ At(g, "snapshot")
    /\ LET k     == goroutines[g].at
           field == SavedFields[k]
           f     == [TopSnap(g) EXCEPT ![SavedIn[field]] = FieldOf(g, field)]
       IN  ReadOnly(g, [goroutines EXCEPT
               ![g].snaps = SetTopSnap(g, f),
               ![g].at = IF k < Len(SavedFields) THEN k + 1 ELSE 1,
               ![g].pc = IF k < Len(SavedFields) THEN "snapshot"
                         ELSE IF TopSnap(g).vals # <<>> THEN "values"
                         ELSE "oldNext"])
    /\ UNCHANGED ctxHandler
    /\ ServeFrame

\* The field that the type switch of Next writes for a value: c.Writer = vt,
\* c.Writer = ResponseWriter(vt), c.request = r in SetRequest, c.Context = vt.
WrittenBy(v) ==
    CASE v.t = "*http.Request" -> "request"
      [] v.t = "ResponseWriterWithStatus" -> "Writer"
      [] v.t = "http.ResponseWriter" -> "Writer"
      [] v.t = "*RouteContext" -> "Context"

\* for _, v := range values { switch ... }: the write of one value.  After
\* c.request = r, SetRequest goes on to read c.Context.
ChainValues(g) ==
    /\ At(g, "values")
    /\ LET k      == goroutines[g].at
           vs     == TopSnap(g).vals
           v      == vs[k]
           field  == WrittenBy(v)
           setter == v.t = "*http.Request"
           more   == k < Len(vs)
       IN  WriteField(g, [goroutines EXCEPT
                             ![g].at = IF setter THEN k ELSE IF more THEN k + 1 ELSE 1,
                             ![g].pc = IF setter THEN "setters"
                                       ELSE IF more THEN "values" ELSE "oldNext"],
                      field, ApplyValue(RunnerOf(g), v)[field])
    /\ UNCHANGED ctxHandler
    /\ ServeFrame

\* if c.Context != nil { for _, setter := range ... }: c.Context is read; the
\* contexts of these requests have no setters, the loops run nothing.
ChainSetters(g) ==
    /\ At(g, "setters")
    /\ FieldOf(g, "Context") \in RouteContexts \cup {"new", "none"}
    /\ LET k    == goroutines[g].at
           more == k < Len(TopSnap(g).vals)
       IN  ReadOnly(g, [goroutines EXCEPT
               ![g].at = IF more THEN k + 1 ELSE 1,
               ![g].pc = IF more THEN "values" ELSE "oldNext"])
    /\ UNCHANGED ctxHandler
    /\ ServeFrame

\* oldNext := c.next
ChainOldNext(g) ==
    /\ At(g, "oldNext")
    /\ ReadOnly(g, [goroutines EXCEPT
           ![g].snaps = SetTopSnap(g, [TopSnap(g) EXCEPT !.oldNext = FieldOf(g, "next")]),
           ![g].pc = "check"])
    /\ UNCHANGED ctxHandler
    /\ ServeFrame

\* if c.Index < len(c.Middlewares): c.Index is read for the test.
ChainCheck(g) ==
    /\ At(g, "check")
    /\ ReadOnly(g, [goroutines EXCEPT
           ![g].pc = IF FieldOf(g, "Index") < Len(Middlewares) THEN "fetch"
                     ELSE "checkEndpoint"])
    /\ UNCHANGED ctxHandler
    /\ ServeFrame

\* else if c.Index == len(c.Middlewares): c.Index is read again for this
\* test; with neither, the loop goes on to its test of c.next.
ChainCheckEndpoint(g) ==
    /\ At(g, "checkEndpoint")
    /\ ReadOnly(g, [goroutines EXCEPT
           ![g].pc = IF FieldOf(g, "Index") = Len(Middlewares) THEN "load" ELSE "again",
           ![g].read = Len(Middlewares)])
    /\ UNCHANGED ctxHandler
    /\ ServeFrame

\* h := c.Middlewares[c.Index].Handler: c.Index is read once more, and an
\* index out of range panics: the deferred functions run.
ChainFetch(g) ==
    /\ At(g, "fetch")
    /\ LET i == FieldOf(g, "Index")
       IN  ReadOnly(g, [goroutines EXCEPT
               ![g].pc = IF i < Len(Middlewares) THEN "load" ELSE "restore",
               ![g].panics = ~(i < Len(Middlewares)),
               ![g].read = IF i < Len(Middlewares) THEN i ELSE 0])
    /\ UNCHANGED ctxHandler
    /\ ServeFrame

\* c.Index++, its read
ChainLoad(g) ==
    /\ At(g, "load")
    /\ ReadOnly(g, [goroutines EXCEPT
           ![g].pc = "store",
           ![g].loaded = FieldOf(g, "Index")])
    /\ UNCHANGED ctxHandler
    /\ ServeFrame

\* c.Index++, its write; then h(c) is called, or the arguments of the
\* endpoint are read.
ChainStore(g) ==
    /\ At(g, "store")
    /\ LET h == goroutines[g].read
       IN  WriteField(g, [goroutines EXCEPT
                             ![g].pc = IF h < Len(Middlewares) THEN "next" ELSE "endpoint",
                             ![g].loaded = 0,
                             ![g].called = IF h < Len(Middlewares) THEN Append(@, h) ELSE @],
                      "Index", Advance(goroutines[g].loaded))
    /\ UNCHANGED ctxHandler
    /\ ServeFrame

\* The handler of the middleware calls c.Next(): Next is entered, without
\* values.
ChainNext(g) ==
    /\ At(g, "next")
    /\ ReadOnly(g, [goroutines EXCEPT
           ![g].pc = "snapshot",
           ![g].snaps = Append(@, NextFrame(NoRunner, <<>>, FALSE))])
    /\ UNCHANGED ctxHandler
    /\ ServeFrame

\* c.Endpoint.ServeHTTPContext(c.Writer, c.request, c.Context): one argument
\* is read; after the last the endpoint runs and returns.
ChainEndpoint(g) ==
    /\ At(g, "endpoint")
    /\ LET k     == goroutines[g].at
           field == SavedFields[k]
           last  == k = Len(SavedFields)
       IN  ReadOnly(g, [goroutines EXCEPT
               ![g].served[field] = FieldOf(g, field),
               ![g].at = IF last THEN 1 ELSE k + 1,
               ![g].called = IF last THEN Append(@, goroutines[g].read) ELSE @,
               ![g].pc = IF last THEN "again" ELSE "endpoint"])
    /\ UNCHANGED ctxHandler
    /\ ServeFrame

\* if c.next: c.next is read.
ChainAgain(g) ==
    /\ At(g, "again")
    /\ ReadOnly(g, [goroutines EXCEPT
           ![g].pc = "loopEnd",
           ![g].flag = FieldOf(g, "next")])
    /\ UNCHANGED ctxHandler
    /\ ServeFrame

\* { c.next = false } and the loop runs again, or else { break } and
\* c.next = oldNext.
ChainLoopEnd(g) ==
    /\ At(g, "loopEnd")
    /\ IF LoopAgain(goroutines[g].flag)
       THEN WriteField(g, [goroutines EXCEPT ![g].pc = "check", ![g].flag = FALSE],
                       "next", FALSE)
       ELSE WriteField(g, [goroutines EXCEPT ![g].pc = "restore"],
                       "next", TopSnap(g).oldNext)
    /\ UNCHANGED ctxHandler
    /\ ServeFrame

\* The deferred function, when Next returns or panics:
\* c.Writer, c.request, c.Context = w, r, arg, one field is written.  After
\* the last, Next is left: the handler that called it returns in its turn to
\* the test of c.next, or the panic goes on to the deferred function of the
\* Next that called the handler; the outermost Next ends the dispatch.
ChainRestore(g) ==
    /\ At(g, "restore")
    /\ LET k     == goroutines[g].at
           field == SavedFields[k]
           last  == k = Len(SavedFields)
           rest  == Front(goroutines[g].snaps)
       IN  WriteField(g, [goroutines EXCEPT
                             ![g].at = IF last THEN 1 ELSE k + 1,
                             ![g].snaps = IF last THEN rest ELSE @,
                             ![g].pc = IF ~last THEN "restore"
                                       ELSE IF rest # <<>>
                                            THEN (IF goroutines[g].panics THEN "restore"
                                                  ELSE "again")
                                       ELSE IF goroutines[g].panics THEN "panicked"
                                       ELSE "done"],
                      field, DeferredRestore(TopSnap(g), RunnerOf(g))[field])
    /\ UNCHANGED ctxHandler
    /\ ServeFrame

\* A handler made by Chain(...).Handler(endpoint): every middleware calls
\* c.Next().
InitServe ==
    /\ InitStackIdle
    /\ InitDispatchIdle
    /\ InitRegIdle
    /\ Middlewares = [i \in 1..NMw |-> [ops |-> <<"Next">>, panics |-> FALSE]]
    /\ Endpoint = "ok"
    /\ values = <<>>
    /\ Index = 0
    /\ next = FALSE
    /\ Writer = NoWriter
    /\ request = NoRequest
    /\ Context = "none"
    /\ ctxHandler = [c \in RouteContexts \cup {"new"} |-> "none"]
    /\ frames = <<>>
    /\ status = "idle"
    /\ trace = <<>>
    /\ muxHandler = [tab |-> FALSE, data |-> 0]
    /\ buildRouterMutex = 0
    /\ goroutines = [g \in 1..NGoroutines |-> Dispatching("idle", "none", NoRunner, <<>>)]
    /\ constructed = 0
    /\ muxMiddlewares = [st |-> NewMiddlewaresStack("Middlewares", TRUE, 0), m |-> EmptyMap]
    /\ useOutcome = [calls |-> 0, sealed |-> FALSE, result |-> "none"]

NextServe ==
    \/ \E g \in 1..NGoroutines : ChainServeHTTP(g)
    \/ \E g \in 1..NGoroutines : ChainServeHTTPContext(g)
    \/ \E g \in 1..NGoroutines : ChainSnapshot(g)
    \/ \E g \in 1..NGoroutines : ChainValues(g)
    \/ \E g \in 1..NGoroutines : ChainSetters(g)
    \/ \E g \in 1..NGoroutines : ChainOldNext(g)
    \/ \E g \in 1..NGoroutines : ChainCheck(g)
    \/ \E g \in 1..NGoroutines : ChainCheckEndpoint(g)
    \/ \E g \in 1..NGoroutines : ChainFetch(g)
    \/ \E g \in 1..NGoroutines : ChainLoad(g)
    \/ \E g \in 1..NGoroutines : ChainStore(g)
    \/ \E g \in 1..NGoroutines : ChainNext(g)
    \/ \E g \in 1..NGoroutines : ChainEndpoint(g)
    \/ \E g \in 1..NGoroutines : ChainAgain(g)
    \/ \E g \in 1..NGoroutines : ChainLoopEnd(g)
    \/ \E g \in 1..NGoroutines : ChainRestore(g)

\* Requests served by one ChainHandler, one after the other or at the same time.
SpecServe == InitServe /\ [][NextServe]_vars

----------------------------------------------------------------------------
\* Properties of the state of a dispatch

\* The slots of a whole run: the middlewares from the first, then the endpoint.
WholeChain == [i \in 1..(Len(Middlewares) + 1) |-> i - 1]

\* C33 (as stated): a dispatch, by ServeHTTP or by ServeHTTPContext, runs the
\* chain from its first middleware, and the dispatches leave the Index of the
\* handler as it was.
C33_DispatchRunsOnOwnState ==
    /\ Index = 0
    /\ \A g \in 1..Len(goroutines) :
         /\ ~At(g, "panicked")
         /\ At(g, "done") => goroutines[g].called = WholeChain

----------------------------------------------------------------------------
\* Properties of Middleware()

\* The result of c.Middlewares[i] when i is no index of the slice: a panic.
IndexOutOfRange == 0 - 1

\* c.Middleware(): return c.Middlewares[c.Index], as the slot it holds.
ChainMiddleware ==
    IF Index < Len(Middlewares) THEN Index ELSE IndexOutOfRange

\* C34 (as stated): in the handler of a middleware, before it calls Next(),
\* Middleware() is the middleware that is executing, the last one too.
C34_MiddlewareIsTheExecutingOne ==
    (status = "running" /\ frames # <<>> /\ Top.kind = "Handler" /\ ~Top.nexted)
        => ChainMiddleware = Top.slot


----------------------------------------------------------------------------
\* ChainHandler: the request setters of the route context

\* number of requests delivered to the setters
MaxDeliveries == 3

\* The requests a handler hands to SetRequest.
SetterRequests == {Req("r1", "bg"), Req("r2", "bg")}

\* SetRequest(r), its loops: with a Context, r is delivered to each of its
\* RequestSetters and ChainRequestSetters.
Notify(st, r) ==
    IF st.Context = "nil" THEN <<>> ELSE <<[C |-> st.Context, R |-> r]>>

\* The type switch of Next over one value: what the setters are delivered.
NotifyValue(st, v) ==
    CASE v.t = "*http.Request" -> Notify(st, v.v)
      [] v.t = "context.Context" -> Notify(st, WithContext(st.request, v.v))
      [] OTHER -> <<>>

\* for _, v := range values { switch ... }: the deliveries, in order.
RECURSIVE NotifyValues(_, _)
NotifyValues(st, vs) ==
    IF vs = <<>> THEN <<>>
    ELSE NotifyValue(st, Head(vs)) \o NotifyValues(ApplyValue(st, Head(vs)), Tail(vs))

\* The variables of the chain the setters' runs leave alone.
besideRunner == <<Middlewares, Endpoint, values, next, ctxHandler, trace>>

\* ServeHTTPContext(w, r, rctx): rctx.Handler = c.Endpoint, then copy.Next()
\* takes its snapshot and calls the handler of the first middleware.
SettersServe ==
    /\ status = "idle"
    /\ LET run == [Writer |-> ResponseWriter(<<"raw", "w0">>),
                   request |-> Req("r0", "bg"), Context |-> ContextOrNew("rc0")]
       IN  /\ Writer' = run.Writer
           /\ request' = run.request
           /\ Context' = run.Context
           /\ frames' = <<NextFrame(run, <<>>, FALSE)>>
           /\ ctxHandler' = [ctxHandler EXCEPT ![run.Context] = "Endpoint"]
    /\ Index' = Advance(0)
    /\ status' = "running"
    /\ UNCHANGED <<Middlewares, Endpoint, values, next, trace, events>>
    /\ UNCHANGED <<stackVars, buildVars, regVars>>
    /\ UNCHANGED <<routers, httpReq, routeCtx, muxFrames, muxStatus, pool>>

\* The handler that is running calls c.SetRequest(r).
SettersSetRequest ==
    /\ status = "running"
    /\ Len(events) < MaxDeliveries
    /\ \E r \in SetterRequests :
         /\ request' = SetRequest(Runner, r).request
         /\ events' = events \o Notify(Runner, r)
    /\ UNCHANGED <<besideRunner, Index, Writer, Context, frames, status>>
    /\ UNCHANGED <<stackVars, buildVars, regVars>>
    /\ UNCHANGED <<routers, httpReq, routeCtx, muxFrames, muxStatus, pool>>

\* The handler that is running calls c.Next(values...).  With a middleware
\* left its handler is called; else the endpoint is served, or nothing, and
\* Next returns through its deferred function.
SettersNext ==
    /\ status = "running"
    /\ Len(events) < MaxDeliveries
    /\ \E vs \in ValueLists :
         LET st == ApplyValues(Runner, vs)
         IN  /\ events' = events \o NotifyValues(Runner, vs)
             /\ IF Index < Len(Middlewares)
                THEN /\ Writer' = st.Writer
                     /\ request' = st.request
                     /\ Context' = st.Context
                     /\ frames' = Append(frames, NextFrame(Runner, vs, next))
                     /\ Index' = Advance(Index)
                ELSE /\ UNCHANGED <<Writer, request, Context, frames>>
                     /\ Index' = IF Index = Len(Middlewares) THEN Advance(Index)
                                 ELSE Index
    /\ UNCHANGED <<besideRunner, status>>
    /\ UNCHANGED <<stackVars, buildVars, regVars>>
    /\ UNCHANGED <<routers, httpReq, routeCtx, muxFrames, muxStatus, pool>>

\* The handler that is running returns: c.next is false, the Next that called
\* it leaves its loop and its deferred function puts the snapshot back.
SettersReturn ==
    /\ status = "running"
    /\ LET st == DeferredRestore(Top, Runner)
       IN  /\ Writer' = st.Writer
           /\ request' = st.request
           /\ Context' = st.Context
    /\ frames' = Front(frames)
    /\ status' = IF Len(frames) = 1 THEN "done" ELSE status
    /\ UNCHANGED <<besideRunner, Index, events>>
    /\ UNCHANGED <<stackVars, buildVars, regVars>>
    /\ UNCHANGED <<routers, httpReq, routeCtx, muxFrames, muxStatus, pool>>

InitSetters ==
    /\ InitChainIdle
    /\ InitStackIdle
    /\ InitBuildIdle
    /\ InitDispatchIdle
    /\ InitRegIdle

NextSetters ==
    \/ SettersServe
    \/ SettersSetRequest
    \/ SettersNext
    \/ SettersReturn

\* One request through a chain whose handlers replace the request.
SpecSetters == InitSetters /\ [][NextSetters]_vars

----------------------------------------------------------------------------
\* Properties of the request setters

\* The deliveries to the setters of the route context c.
DeliveredTo(c) == {j \in 1..Len(events) : events[j].C = c}

\* C35 (as stated): the setters of the runner's route context, once they were
\* delivered a request, hold the request the runner holds, after a return of
\* Next too.
C35_SettersHoldCurrentRequest ==
    (status = "running" /\ DeliveredTo(Context) # {})
        => LET last == CHOOSE j \in DeliveredTo(Context) :
                           \A k \in DeliveredTo(Context) : k <= j
           IN  events[last].R = request


----------------------------------------------------------------------------
\* Mux: HandlerInterseptOption()

\* The duplication options handed to HandlerInterseptOption().
InterseptOptions == {DUPLICATION_OVERRIDE, DUPLICATION_ABORT, DUPLICATION_SKIP}

\* mx.HandlerInterseptOption(option, md): old is read, the restore is
\* deferred, and mx.HandlerIntersept(md) adds md with
\* mx.registerHandlerInterseptorOption; option is assigned to nothing.  The
\* deferred function runs when Add panics, too.
HandlerInterseptOption ==
    /\ regOutcome.calls < MaxIntercepts
    /\ \E option \in InterseptOptions : \E name \in Names :
         LET old == routers[1].registerHandlerInterseptorOption
             md  == Middleware(name, ToString(regOutcome.calls + 1), <<>>, <<>>)
             r   == AddItems(stacks[1], heap[1], <<md>>, 1,
                             routers[1].registerHandlerInterseptorOption)
         IN  /\ stacks' = [stacks EXCEPT ![1] = r.st]
             /\ heap' = [heap EXCEPT ![1] = r.m]
             /\ outcome' = Outcome("Add", 1, routers[1].registerHandlerInterseptorOption,
                                   r.result)
             /\ routers' = [routers EXCEPT ![1].registerHandlerInterseptorOption = old]
             /\ events' = Append(events, [ev |-> "intersept", option |-> option,
                                          md |-> md, result |-> r.result])
             /\ regOutcome' = CallOutcome(regOutcome.calls + 1, "HandlerInterseptOption", 1)
    /\ UNCHANGED <<budget, tree>>
    /\ UNCHANGED <<httpReq, routeCtx, muxFrames, muxStatus, pool>>
    /\ UNCHANGED <<chainVars, buildVars>>

\* NewMux(): registerHandlerInterseptorOption is the zero value, and
\* handlerInterseptors = NewMiddlewaresStack("HandlerInterseptors", false).
InitOption ==
    /\ InitChainIdle
    /\ InitBuildIdle
    /\ heap = <<EmptyMap>>
    /\ stacks = <<NewMiddlewaresStack("HandlerInterseptors", FALSE, 1)>>
    /\ outcome = NoOutcome
    /\ budget = 0
    /\ routers = <<[built |-> FALSE, registerHandlerInterseptorOption |-> 0]>>
    /\ httpReq = <<>>
    /\ routeCtx = <<>>
    /\ muxFrames = <<>>
    /\ muxStatus = "idle"
    /\ events = <<>>
    /\ pool = <<>>
    /\ tree = {}
    /\ regOutcome = CallOutcome(0, "none", 0)

NextOption == HandlerInterseptOption

\* HandlerInterseptOption() calls on one router.
SpecOption == InitOption /\ [][NextOption]_vars

----------------------------------------------------------------------------
\* Properties of HandlerInterseptOption()

\* C36 (as stated): HandlerInterseptOption(option, md) adds md under option, so
\* with ABORT a name that is registered fails and with SKIP it keeps the
\* middleware it had, and the option of the router is afterwards what it was.
C36_ItemsAddedUnderGivenOption ==
    [][regOutcome'.calls = regOutcome.calls + 1 =>
         LET call == Last(events')
             had  == Has(heap[1], call.md.Name)
         IN  /\ (had /\ call.option = DUPLICATION_ABORT) => call.result = "panic"
             /\ (had /\ call.option = DUPLICATION_SKIP)
                    => heap'[1][call.md.Name] = heap[1][call.md.Name]
             /\ routers'[1].registerHandlerInterseptorOption
                    = routers[1].registerHandlerInterseptorOption]_vars


----------------------------------------------------------------------------
\* Mux: FindHandler()

\* methodMap[method]: the method type of a name methodMap knows, the zero
\* value for any other string.
NoMethodType == "0"
methodMap(method) == IF method \in Methods THEN method ELSE NoMethodType

\* mx.tree.GetRoute(m, path) and the Handler() of what it returns: the
\* handler of the route FindRoute finds for the method type and the path,
\* none for the zero method type.
GetRoute(t, m, path) ==
    IF m = NoMethodType THEN NoHandler
    ELSE FindRoute(t, NewRouteContext, m, path).handler

\* A path handed over as a method name and a method name handed over as a
\* path: the same Go string, in the model's form of the other kind.  A path
\* is a method name when it is that one word.
PathAsMethod(path) == IF Len(path) = 1 THEN path[1] ELSE "other"
MethodAsPath(method) == <<method>>

\* mh.Handler.(HandlerFinder): Mount() stores the router it was handed as a
\* Router, which embeds HandlerFinder, and a *Mux is a Router
\* (var _ Router = &Mux{}); every mounted router here is a *Mux.
IsHandlerFinder(sub) == TRUE

\* mx.FindHandler(method, path) on router i: a MountHandler is returned, or
\* what its handler finds when that is a HandlerFinder, called with the path
\* and the method in this order; any other handler falls through to return nil.
RECURSIVE FindHandler(_, _, _, _)
FindHandler(rs, i, method, path) ==
    LET h == GetRoute(rs[i].tree, methodMap(method), path)
    IN  IF h = NoHandler THEN NoHandler
        ELSE IF h.kind = "mount"
        THEN IF IsHandlerFinder(h.router)
             THEN FindHandler(rs, h.router, PathAsMethod(path), MethodAsPath(method))
             ELSE h
        ELSE NoHandler

\* What was returned: nil, or the kind of the handler.
Returned(h) == IF h = NoHandler THEN "nil" ELSE h.kind

\* routers[1].FindHandler(method, path), with the method and the path of the
\* request, before the request is served
MuxFindHandler ==
    /\ muxStatus = "idle"
    /\ regOutcome = "none"
    /\ regOutcome' = Returned(FindHandler(routers, 1, httpReq.method, httpReq.path))
    /\ UNCHANGED <<tree, dispatchVars>>
    /\ UNCHANGED <<chainVars, stackVars, buildVars>>

NextFind == MuxFindHandler \/ NextMux

\* FindHandler() called with the method and the path of a request, and the
\* request dispatched through the same routers.
SpecFind == InitMatch /\ [][NextFind]_vars

----------------------------------------------------------------------------
\* Properties of FindHandler()

\* C37 (as stated): FindHandler() returns the endpoint the request of the same
\* method and path executes, on the router or under its mounts, and nil only
\* when the request reaches no endpoint.
C37_FindHandlerIsTheExecutedHandler ==
    (regOutcome # "none" /\ muxStatus \in {"done", "panicked", "reset"}) =>
        (regOutcome = "endpoint" <=> \E k \in 1..Len(events) : events[k].ev = "endpoint")


----------------------------------------------------------------------------
\* Mux: an inline router made by With() of an inline router

\* The stacks followed: the middlewares of the enclosing inline router,
\* parent.With(), and of the nested one, enclosing.With(...).  Their
\* interseptors and handler interseptors are empty.
EnclosingMiddlewares == 1
NestedMiddlewares == 2

\* The middlewares handed to Use() of the enclosing inline router.
EnclosingCatalogue ==
    { Middleware("", "e1", <<>>, <<>>),
      Middleware("auth", "e2", <<>>, <<>>) }

\* The middlewares handed to With() and Use() of the nested inline router.
NestedCatalogue ==
    { Middleware("", "n1", <<>>, <<>>),
      Middleware("log", "n2", <<>>, <<>>) }

\* enclosing.Use(md), before the nested router is made
EnclosingUse ==
    /\ Len(stacks) = 1
    /\ InlineAdd("Use", 1, EnclosingMiddlewares, EnclosingCatalogue, DUPLICATION_ABORT)

\* enclosing.With(middlewares...): enclosing is inline, its stack is copied,
\* and im.Use(middlewares...) adds to the copy.
NestedWith ==
    /\ Len(stacks) = 1
    /\ regOutcome.calls < MaxInlineOps
    /\ \E mds \in {<<>>} \cup {<<md>> : md \in NestedCatalogue} :
         LET cp == CopyStack(stacks[EnclosingMiddlewares], heap)
             r  == AddItems(cp.st, cp.heap[cp.st.ByName], mds, 1, DUPLICATION_ABORT)
         IN  /\ stacks' = Append(stacks, r.st)
             /\ heap' = [cp.heap EXCEPT ![cp.st.ByName] = r.m]
             /\ outcome' = Outcome("Add", NestedMiddlewares, DUPLICATION_ABORT, r.result)
    /\ regOutcome' = CallOutcome(regOutcome.calls + 1, "With", 1)
    /\ UNCHANGED <<budget, tree>>
    /\ UNCHANGED <<chainVars, buildVars, dispatchVars>>

\* nested.Use(md)
NestedUse ==
    /\ Len(stacks) = 2
    /\ InlineAdd("Use", 2, NestedMiddlewares, NestedCatalogue, DUPLICATION_ABORT)

\* nested.Get(pattern, endpoint): the endpoint is wrapped by chainHandler,
\* which builds the stacks of the nested router, and inserted in the tree
NestedHandle ==
    /\ Len(stacks) = 2
    /\ regOutcome.calls < MaxInlineOps
    /\ \E pattern \in InlinePatterns :
       LET its == NewMiddlewaresStack("Interseptors", FALSE, 1)
           mws == stacks[NestedMiddlewares]
           endpoint == ToString(regOutcome.calls + 1)
       IN  \E c \in chainHandler(its, EmptyMap, mws, heap[mws.ByName],
                                 EndpointHandler(endpoint)) :
             LET r == IF c.result = "panic" THEN [tree |-> tree, result |-> "panic"]
                      ELSE handleOn([MuxSettings EXCEPT !.inline = TRUE,
                                                        !.ApiExtensions = <<>>],
                                    tree, {"GET"}, pattern, c.handler)
             IN  /\ stacks' = [stacks EXCEPT ![NestedMiddlewares] = c.mws]
                 /\ tree' = r.tree
                 /\ events' = Append(events, [ev |-> "handle", pattern |-> pattern,
                                              result |-> r.result])
    /\ regOutcome' = CallOutcome(regOutcome.calls + 1, "Get", 2)
    /\ UNCHANGED <<heap, outcome, budget>>
    /\ UNCHANGED <<routers, httpReq, routeCtx, muxFrames, muxStatus, pool>>
    /\ UNCHANGED <<chainVars, buildVars>>

\* parent.ServeHTTP(w, GET path): the parent has no middlewares, routeHTTP
\* runs the handler found on the shared tree.
NestedServe ==
    /\ regOutcome.calls < MaxInlineOps
    /\ \E path \in InlinePatterns :
         events' = Append(events, [ev |-> "serve", path |-> path,
                                   ran |-> RouteCalls(tree, path)])
    /\ regOutcome' = CallOutcome(regOutcome.calls + 1, "ServeHTTP", 1)
    /\ UNCHANGED <<routers, httpReq, routeCtx, muxFrames, muxStatus, pool, tree>>
    /\ UNCHANGED <<chainVars, stackVars, buildVars>>

\* parent := NewMux(); enclosing := parent.With()
InitNested ==
    /\ InitChainIdle
    /\ InitBuildIdle
    /\ heap = <<EmptyMap>>
    /\ stacks = <<NewMiddlewaresStack("Middleware", TRUE, 1)>>
    /\ outcome = NoOutcome
    /\ budget = 0
    /\ routers = <<>>
    /\ httpReq = <<>>
    /\ routeCtx = <<>>
    /\ muxFrames = <<>>
    /\ muxStatus = "idle"
    /\ events = <<>>
    /\ pool = <<>>
    /\ tree = {}
    /\ regOutcome = CallOutcome(0, "none", 0)

NextNested ==
    \/ EnclosingUse
    \/ NestedWith
    \/ NestedUse
    \/ NestedHandle
    \/ NestedServe

\* Routes registered on an inline router nested in an inline router.
SpecNested == InitNested /\ [][NextNested]_vars

----------------------------------------------------------------------------
\* Properties of nested inline routers

\* C38 (as stated): in what a request runs, every middleware of the enclosing
\* inline router is ahead of every middleware added on the nested one.
C38_EnclosingMiddlewaresRunFirst ==
    \A k \in 1..Len(events) :
        events[k].ev = "serve" =>
            \A a, b \in 1..Len(events[k].ran) :
                (/\ events[k].ran[a] \in {md.Handler : md \in EnclosingCatalogue}
                 /\ events[k].ran[b] \in {md.Handler : md \in NestedCatalogue})
                    => a < b

====
